---- MODULE Spec2Model ----
(***************************************************************************)
(* Job queue and media pipeline of AI Media Processor Pro.                 *)
(*                                                                         *)
(* The caller's handlers of app_ui.py (add_job_to_queue,                   *)
(* start_queue_thread, _remove_job_from_queue, clear_queue,                *)
(* cancel_processing) run on the interactive thread, one whole handler at  *)
(* a time.  Every start_queue_thread that is accepted spawns a thread that *)
(* runs App._process_queue; that function is split at each access to the   *)
(* state it shares with the handlers (queue, is_processing, cancel_flag,   *)
(* current_job_id), and process_media is split at its stages.  No lock     *)
(* protects the shared state, so the steps of a thread interleave freely   *)
(* with the handlers and with the steps of other threads.                  *)
(***************************************************************************)
EXTENDS Integers, Sequences, FiniteSets, TLC

\* ---------------------------------------------------------------- bounds
\* jobs ever enqueued
MaxJobs == 3
\* threads running _process_queue that exist at the same time
MaxWorkers == 2
\* longest audio, in half seconds, split with a short chunk length
MaxHalves == 12
\* longest of the short chunk lengths, in seconds
MaxChunkLen == 3

VARIABLES queue, is_processing, cancel_flag, current_job_id, workers,
          nextId, lastOp, doomed, requested, track, events, disk, calc

vars == <<queue, is_processing, cancel_flag, current_job_id, workers,
          nextId, lastOp, doomed, requested, track, events, disk, calc>>

\* what no step of the queue or of the pipeline writes
frame == <<track, disk, calc>>

frameAll == <<track, disk, calc, events>>

\* lastOp, doomed, requested and track are history variables.  track names
\* the kind of operation whose calls are recorded; lastOp is the operation
\* that led to the state when it is of that kind, and OtherOp after any
\* other step; its arg is what the caller submitted (enqueue), the id
\* (remove), the caller's answer to the dialog (clear), or, for a run that
\* leaves its loop with res the exception on its way out, the number of jobs
\* the run completed.
\* doomed holds the ids of the jobs that were in the queue when a call of
\* process_media ended with the cancel flag set and that are still in the
\* queue.  requested holds, for the jobs in the queue, the export choice the
\* caller made for the job (spec section 3).
\* events is the history of one direct call of process_media (track =
\* "pipeline"): the progress events it sent and the external effects it
\* had, in their order.  disk holds the stems for which the separator left
\* files.  calc is the state of a helper function applied on its own.

Workers == 1..MaxWorkers

Ids(q) == {q[i].id : i \in 1..Len(q)}

\* ------------------------------------------------------- processing_logic
stems == <<"vocals", "drums", "bass", "other">>

StemSet == {stems[i] : i \in 1..Len(stems)}

\* the value of current_job_id when no job is being processed
None == 0

NoJob == [id |-> None]

NoArgs == [export_mode |-> "none"]

\* -------------------------------------------------------------- sources
\* A source text is held by the parts that validate_input's pattern and
\* os.path.exists look at.
LocalFile ==
    [kind |-> "path", scheme |-> "", www |-> FALSE, host |-> "",
     rest |-> "song.mp4", exists |-> TRUE]

MissingFile ==
    [kind |-> "path", scheme |-> "", www |-> FALSE, host |-> "",
     rest |-> "gone.mp4", exists |-> FALSE]

YoutubeUrl ==
    [kind |-> "url", scheme |-> "https", www |-> TRUE, host |-> "youtu.be",
     rest |-> "abc", exists |-> FALSE]

OtherSiteUrl ==
    [kind |-> "url", scheme |-> "https", www |-> FALSE, host |-> "vimeo.com",
     rest |-> "abc", exists |-> FALSE]

BareHostUrl ==
    [kind |-> "url", scheme |-> "http", www |-> FALSE, host |-> "youtube.com",
     rest |-> "", exists |-> FALSE]

EmptySource ==
    [kind |-> "path", scheme |-> "", www |-> FALSE, host |-> "",
     rest |-> "", exists |-> FALSE]

\* widget values of the mixer, effects and lyrics controls
SettingsA ==
    [stem_volumes |-> [s \in StemSet |-> 100], pitch_shift |-> 0,
     normalize_volume |-> FALSE, speed_multiplier |-> 100,
     generate_lyrics |-> TRUE, whisper_model |-> "base",
     karaoke_styles |-> "pink"]

SettingsB ==
    [stem_volumes |-> [s \in StemSet |-> IF s = "vocals" THEN 0 ELSE 100],
     pitch_shift |-> 2, normalize_volume |-> TRUE, speed_multiplier |-> 150,
     generate_lyrics |-> FALSE, whisper_model |-> "small",
     karaoke_styles |-> "pink"]

\* export choices of a job (spec section 3, Job attributes)
ExportVideo ==
    [export_mode |-> "Video", export_format |-> "mp3",
     stems_to_export |-> <<>>]

ExportStems ==
    [export_mode |-> "Stems Only", export_format |-> "flac",
     stems_to_export |-> <<"vocals">>]

\* What the caller has entered when a handler reads the widgets.
Submission(source, output_dir, settings, export) ==
    [source |-> source, output_dir |-> output_dir, settings |-> settings,
     export |-> export]

Submissions ==
    { Submission(LocalFile, "out", SettingsA, ExportVideo),
      Submission(YoutubeUrl, "out", SettingsB, ExportStems),
      Submission(MissingFile, "out", SettingsA, ExportVideo),
      Submission(OtherSiteUrl, "out", SettingsA, ExportVideo),
      Submission(BareHostUrl, "out", SettingsA, ExportVideo),
      Submission(EmptySource, "out", SettingsA, ExportVideo),
      Submission(LocalFile, "", SettingsB, ExportVideo) }

NoExport == [export_mode |-> "none"]

\* the recorded export choices of the jobs of q
Kept(req, q) ==
    [id \in 1..MaxJobs |-> IF id \in Ids(q) THEN req[id] ELSE NoExport]

\* ------------------------------------------------------------ the threads
OtherOp == [op |-> "other", res |-> "ok", arg |-> 0]

IdleWorker ==
    [pc |-> "idle", total_jobs |-> 0, jobs_completed |-> 0, job |-> NoJob,
     job_successful |-> FALSE, args |-> NoArgs, exc |-> "none",
     temp_dir |-> FALSE, failed |-> FALSE, stem_i |-> 0]

NoCalc == [op |-> "none"]

\* the application before any job has been enqueued
EmptyApp ==
    /\ queue = <<>>
    /\ is_processing = FALSE
    /\ cancel_flag = FALSE
    /\ current_job_id = None
    /\ nextId = 1
    /\ lastOp = OtherOp
    /\ doomed = {}
    /\ requested = [id \in 1..MaxJobs |-> NoExport]
    /\ events = <<>>

InitState ==
    /\ EmptyApp
    /\ workers = [w \in Workers |-> IdleWorker]
    /\ disk = StemSet
    /\ calc = NoCalc

Init == InitState /\ track = "none"


\* ------------------------------------------------------- caller handlers
Op(name, result, arg) ==
    IF track = name THEN [op |-> name, res |-> result, arg |-> arg]
    ELSE OtherOp

\* mutant: any URL passes
validate_input_AnyUrl(source) ==
    \/ source.kind = "url"
    \/ source.exists

\* app_ui.py validate_input: the pattern
\*   ^(https|http)?:\/\/(www\.)?(youtube\.com|youtu\.be)\/.+$
\* or an existing path.
validate_input(source) ==
    \/ /\ source.kind = "url"
       /\ source.scheme \in {"https", "http", ""}
       /\ source.host \in {"youtube.com", "youtu.be"}
       /\ source.rest # ""
    \/ source.exists

\* the dictionary add_job_to_queue builds (line 261): no export choice in it
NewJob(id, sub) ==
    [id |-> id, source |-> sub.source, output_dir |-> sub.output_dir,
     stem_volumes |-> sub.settings.stem_volumes,
     pitch_shift |-> sub.settings.pitch_shift,
     normalize_volume |-> sub.settings.normalize_volume,
     speed_multiplier |-> sub.settings.speed_multiplier,
     generate_lyrics |-> sub.settings.generate_lyrics,
     whisper_model |-> sub.settings.whisper_model,
     karaoke_styles |-> sub.settings.karaoke_styles]

add_job_to_queue(sub) ==
    /\ nextId <= MaxJobs
    /\ IF validate_input(sub.source) /\ sub.output_dir # ""
       THEN /\ queue' = Append(queue, NewJob(nextId, sub))
            /\ nextId' = nextId + 1
            /\ requested' = [requested EXCEPT ![nextId] = sub.export]
            /\ lastOp' = Op("enqueue", "ok", sub)
       ELSE /\ UNCHANGED <<queue, nextId, requested>>
            /\ lastOp' = Op("enqueue", "rejected", sub)
    /\ UNCHANGED <<is_processing, cancel_flag, current_job_id, workers,
                   doomed, frameAll>>

\* the slot the new thread takes
FreeWorker == CHOOSE w \in Workers :
    /\ workers[w].pc = "idle"
    /\ \A v \in Workers : workers[v].pc = "idle" => w <= v

\* mutant: a run is started on an empty queue too
start_queue_thread_AnyQueue ==
    IF is_processing
    THEN /\ lastOp' = Op("start", "rejected", 0)
         /\ UNCHANGED <<queue, is_processing, cancel_flag, current_job_id,
                        workers, nextId, doomed, requested, frameAll>>
    ELSE /\ \E w \in Workers : workers[w].pc = "idle"
         /\ is_processing' = TRUE
         /\ cancel_flag' = FALSE
         /\ workers' = [workers EXCEPT ![FreeWorker].pc = "start"]
         /\ lastOp' = Op("start", "ok", 0)
         /\ UNCHANGED <<queue, current_job_id, nextId, doomed, requested,
                        frameAll>>

\* mutant: the flag is left as the earlier run left it
start_queue_thread_KeepsFlag ==
    IF is_processing \/ queue = <<>>
    THEN /\ lastOp' = Op("start", "rejected", 0)
         /\ UNCHANGED <<queue, is_processing, cancel_flag, current_job_id,
                        workers, nextId, doomed, requested, frameAll>>
    ELSE /\ \E w \in Workers : workers[w].pc = "idle"
         /\ is_processing' = TRUE
         /\ workers' = [workers EXCEPT ![FreeWorker].pc = "start"]
         /\ lastOp' = Op("start", "ok", 0)
         /\ UNCHANGED <<queue, cancel_flag, current_job_id, nextId, doomed,
                        requested, frameAll>>

start_queue_thread ==
    IF is_processing \/ queue = <<>>
    THEN /\ lastOp' = Op("start", "rejected", 0)
         /\ UNCHANGED <<queue, is_processing, cancel_flag, current_job_id,
                        workers, nextId, doomed, requested, frameAll>>
    ELSE /\ \E w \in Workers : workers[w].pc = "idle"
         /\ is_processing' = TRUE
         /\ cancel_flag' = FALSE
         /\ workers' = [workers EXCEPT ![FreeWorker].pc = "start"]
         /\ lastOp' = Op("start", "ok", 0)
         /\ UNCHANGED <<queue, current_job_id, nextId, doomed, requested,
                        frameAll>>

WithoutJob(q, job_id) == SelectSeq(q, LAMBDA job : job.id # job_id)

\* mutant: no test of is_processing
remove_job_from_queue_Unguarded(job_id) ==
    /\ queue' = WithoutJob(queue, job_id)
    /\ doomed' = doomed \ {job_id}
    /\ requested' = Kept(requested, WithoutJob(queue, job_id))
    /\ lastOp' = Op("remove", "ok", job_id)
    /\ UNCHANGED <<is_processing, cancel_flag, current_job_id, workers,
                   nextId, frameAll>>

remove_job_from_queue(job_id) ==
    /\ IF is_processing
       THEN /\ UNCHANGED <<queue, doomed, requested>>
            /\ lastOp' = Op("remove", "rejected", 0)
       ELSE /\ queue' = WithoutJob(queue, job_id)
            /\ doomed' = doomed \ {job_id}
            /\ requested' = Kept(requested, WithoutJob(queue, job_id))
            /\ lastOp' = Op("remove", "ok", job_id)
    /\ UNCHANGED <<is_processing, cancel_flag, current_job_id, workers,
                   nextId, frameAll>>

Answer(confirm) == IF confirm THEN 1 ELSE 0

\* mutant: a run whose stop has been requested does not block the clearing
clear_queue_AfterStop(confirm) ==
    /\ IF is_processing /\ ~cancel_flag
       THEN /\ UNCHANGED <<queue, doomed, requested>>
            /\ lastOp' = Op("clear", "rejected", Answer(confirm))
       ELSE IF queue # <<>> /\ confirm
            THEN /\ queue' = <<>>
                 /\ doomed' = {}
                 /\ requested' = Kept(requested, <<>>)
                 /\ lastOp' = Op("clear", "ok", Answer(confirm))
            ELSE /\ UNCHANGED <<queue, doomed, requested>>
                 /\ lastOp' = Op("clear", "declined", Answer(confirm))
    /\ UNCHANGED <<is_processing, cancel_flag, current_job_id, workers,
                   nextId, frameAll>>

\* confirm: the caller's answer to the confirmation dialog
clear_queue(confirm) ==
    /\ IF is_processing
       THEN /\ UNCHANGED <<queue, doomed, requested>>
            /\ lastOp' = Op("clear", "rejected", Answer(confirm))
       ELSE IF queue # <<>> /\ confirm
            THEN /\ queue' = <<>>
                 /\ doomed' = {}
                 /\ requested' = Kept(requested, <<>>)
                 /\ lastOp' = Op("clear", "ok", Answer(confirm))
            ELSE /\ UNCHANGED <<queue, doomed, requested>>
                 /\ lastOp' = Op("clear", "declined", Answer(confirm))
    /\ UNCHANGED <<is_processing, cancel_flag, current_job_id, workers,
                   nextId, frameAll>>

cancel_processing(confirm) ==
    /\ IF is_processing /\ confirm
       THEN /\ cancel_flag' = TRUE
            /\ lastOp' = Op("cancel", "ok", 0)
       ELSE /\ UNCHANGED cancel_flag
            /\ lastOp' = Op("cancel", "rejected", 0)
    /\ UNCHANGED <<queue, is_processing, current_job_id, workers, nextId,
                   doomed, requested, frameAll>>

\* ---------------------------------------------------------- process_media
\* the call of app_ui.py lines 300-304: eleven positional arguments, so
\* export_mode, export_format and stems_to_export take their defaults
\* (processing_logic.py lines 100-101, 107-108)
ProcessMediaArgs(job) ==
    [source_path |-> job.source, output_dir_base |-> job.output_dir,
     stem_volumes |-> job.stem_volumes, pitch_shift |-> job.pitch_shift,
     normalize_volume |-> job.normalize_volume,
     speed_multiplier |-> job.speed_multiplier,
     generate_lyrics |-> job.generate_lyrics,
     whisper_model |-> job.whisper_model,
     karaoke_styles |-> job.karaoke_styles,
     export_mode |-> "Video", export_format |-> "mp3",
     stems_to_export |-> <<>>]

\* the stages in the order of the function body
StageOrder ==
    <<"p_setup", "p_acquire", "p_transcribe", "p_split", "p_separate",
      "p_mix", "p_effects", "p_export">>

\* mutant: lyrics are transcribed in every export mode
StageRuns_LyricsAnyMode(stage, a) ==
    CASE stage = "p_transcribe" -> a.generate_lyrics
      [] stage = "p_effects"    -> \/ a.normalize_volume
                                   \/ a.pitch_shift # 0
                                   \/ a.speed_multiplier # 100
      [] OTHER -> TRUE

\* does the stage run for these arguments (lines 163, 230)
StageRuns(stage, a) ==
    CASE stage = "p_transcribe" -> a.generate_lyrics /\ a.export_mode = "Video"
      [] stage = "p_effects"    -> \/ a.normalize_volume
                                   \/ a.pitch_shift # 0
                                   \/ a.speed_multiplier # 100
      [] OTHER -> TRUE

\* does the stage begin with check_cancel(cancel_flag)
\* (lines 114, 124, 164, 172, 182, 203, 231); no export branch does: the
\* check of line 257 is inside the loop over the stems, after line 254
HasCheckpoint(stage, a) == stage # "p_export"

\* the exceptions the stage's collaborators can raise
StageFailures(stage, a) ==
    CASE stage = "p_setup"      -> {"Other"}
      [] stage = "p_acquire"    -> {"ProcessingError", "Other"}
      [] stage = "p_transcribe" -> {"Other"}
      [] stage = "p_split"      -> {"FfmpegError"}
      [] stage = "p_separate"   -> {"ProcessingError", "Other"}
      [] stage = "p_mix"        -> {"FfmpegError", "Other"}
      [] stage = "p_effects"    -> {}
      [] OTHER                  -> {"ProcessingError"}

StageIndex(stage) == CHOOSE i \in 1..Len(StageOrder) : StageOrder[i] = stage

RECURSIVE NextStageFrom(_, _)
\* the first stage at or after position i that runs, or the normal return
NextStageFrom(i, a) ==
    IF i > Len(StageOrder) THEN "p_finally"
    ELSE IF StageRuns(StageOrder[i], a) THEN StageOrder[i]
    ELSE NextStageFrom(i + 1, a)

StepOp == OtherOp

\* entries of the history of a call
Effect(what, stopped) == [kind |-> "effect", what |-> what, stopped |-> stopped]

Progress(what) == [kind |-> "progress", what |-> what, stopped |-> FALSE]

Output(stem) == [kind |-> "output", what |-> stem, stopped |-> FALSE]

\* line 121 has made the scratch directory
ScratchMade == [kind |-> "scratch", what |-> "made", stopped |-> FALSE]

Log(entries) == IF track = "pipeline" THEN events \o entries ELSE events

\* One stage of process_media in thread w: the checkpoint, then the stage's
\* work, which succeeds or raises.  The scratch directory exists from the
\* end of Setup (line 121).
PipelineStage(w) ==
    LET me == workers[w]
        stage == me.pc
    IN  /\ stage \in {StageOrder[i] : i \in 1..Len(StageOrder)}
        /\ ~(stage = "p_export" /\ me.args.export_mode = "Stems Only")
        /\ \E outcome \in {"ok"} \cup StageFailures(stage, me.args) :
             LET stopped == HasCheckpoint(stage, me.args) /\ cancel_flag
                 raised == IF stopped THEN "CancelledError"
                           ELSE IF outcome = "ok" THEN "none" ELSE outcome
                 made == me.temp_dir \/ (stage = "p_setup" /\ raised = "none")
                 done == stage = "p_export" /\ raised = "none"
             IN  /\ workers' = [workers EXCEPT ![w] =
                      [me EXCEPT !.exc = raised,
                                 !.temp_dir = made,
                                 !.pc = IF raised = "none"
                                        THEN NextStageFrom(
                                                 StageIndex(stage) + 1, me.args)
                                        ELSE "p_except"]]
                 /\ events' = Log(
                      (IF stopped THEN <<>>
                       ELSE <<Effect(stage, cancel_flag)>>)
                      \o (IF stage = "p_setup" /\ raised = "none"
                          THEN <<ScratchMade>> ELSE <<>>)
                      \o (IF done THEN <<Progress("success")>> ELSE <<>>))
        /\ lastOp' = StepOp
        /\ UNCHANGED <<queue, is_processing, cancel_flag, current_job_id,
                       nextId, doomed, requested, frame>>

\* lines 252-255 of the Stems Only branch: the output directory of the
\* stems is made before any check of the cancel flag
StemsExportBegin(w) ==
    LET me == workers[w]
    IN  /\ me.pc = "p_export"
        /\ me.args.export_mode = "Stems Only"
        /\ \E outcome \in {"ok", "Other"} :
             IF outcome = "ok"
             THEN /\ workers' = [workers EXCEPT ![w] =
                       [me EXCEPT !.pc = "p_stems", !.stem_i = 1]]
                  /\ events' = Log(<<Effect("p_export", cancel_flag)>>)
             ELSE /\ workers' = [workers EXCEPT ![w] =
                       [me EXCEPT !.exc = outcome, !.pc = "p_except"]]
                  /\ events' = events
        /\ lastOp' = StepOp
        /\ UNCHANGED <<queue, is_processing, cancel_flag, current_job_id,
                       nextId, doomed, requested, frame>>

\* mutant: a stem without separated files is exported all the same
StemsExportStep_NoSkip(w) ==
    LET me == workers[w]
        todo == me.args.stems_to_export
    IN  /\ me.pc = "p_stems"
        /\ IF me.stem_i > Len(todo)
           THEN /\ workers' = [workers EXCEPT ![w] =
                     [me EXCEPT !.stem_i = 0, !.pc = "p_finally"]]
                /\ events' = Log(<<Progress("success")>>)
           ELSE IF cancel_flag
           THEN /\ workers' = [workers EXCEPT ![w] =
                     [me EXCEPT !.stem_i = 0, !.exc = "CancelledError",
                                !.pc = "p_except"]]
                /\ events' = events
           ELSE \E outcome \in {"ok", "ProcessingError", "Other"} :
                  IF outcome = "ok"
                  THEN /\ workers' = [workers EXCEPT ![w].stem_i = @ + 1]
                       /\ events' = Log(<<Output(todo[me.stem_i])>>)
                  ELSE /\ workers' = [workers EXCEPT ![w] =
                            [me EXCEPT !.stem_i = 0, !.exc = outcome,
                                       !.pc = "p_except"]]
                       /\ events' = events
        /\ lastOp' = StepOp
        /\ UNCHANGED <<queue, is_processing, cancel_flag, current_job_id,
                       nextId, doomed, requested, frame>>

\* lines 256-270: one turn of the loop over stems_to_export, or the end of
\* the loop (success event and return)
StemsExportStep(w) ==
    LET me == workers[w]
        todo == me.args.stems_to_export
    IN  /\ me.pc = "p_stems"
        /\ IF me.stem_i > Len(todo)
           THEN /\ workers' = [workers EXCEPT ![w] =
                     [me EXCEPT !.stem_i = 0, !.pc = "p_finally"]]
                /\ events' = Log(<<Progress("success")>>)
           ELSE IF cancel_flag
           THEN /\ workers' = [workers EXCEPT ![w] =
                     [me EXCEPT !.stem_i = 0, !.exc = "CancelledError",
                                !.pc = "p_except"]]
                /\ events' = events
           ELSE IF todo[me.stem_i] \notin disk
           THEN /\ workers' = [workers EXCEPT ![w].stem_i = @ + 1]
                /\ events' = events
           ELSE \E outcome \in {"ok", "ProcessingError", "Other"} :
                  IF outcome = "ok"
                  THEN /\ workers' = [workers EXCEPT ![w].stem_i = @ + 1]
                       /\ events' = Log(<<Output(todo[me.stem_i])>>)
                  ELSE /\ workers' = [workers EXCEPT ![w] =
                            [me EXCEPT !.stem_i = 0, !.exc = outcome,
                                       !.pc = "p_except"]]
                       /\ events' = events
        /\ lastOp' = StepOp
        /\ UNCHANGED <<queue, is_processing, cancel_flag, current_job_id,
                       nextId, doomed, requested, frame>>

\* mutant: whatever was caught leaves as a ProcessingError
PipelineExcept_WrapsAll(w) ==
    /\ workers[w].pc = "p_except"
    /\ workers' = [workers EXCEPT ![w] =
         [@ EXCEPT !.exc = "ProcessingError", !.pc = "p_finally"]]
    /\ events' = Log(<<Progress("failure")>>)
    /\ lastOp' = StepOp
    /\ UNCHANGED <<queue, is_processing, cancel_flag, current_job_id,
                   nextId, doomed, requested, frame>>

\* mutant: the exception is raised again without a progress event
PipelineExcept_Silent(w) ==
    /\ workers[w].pc = "p_except"
    /\ workers' = [workers EXCEPT ![w].pc = "p_finally"]
    /\ events' = events
    /\ lastOp' = StepOp
    /\ UNCHANGED <<queue, is_processing, cancel_flag, current_job_id,
                   nextId, doomed, requested, frame>>

\* lines 297-304: report the failure, raise it again
PipelineExcept(w) ==
    /\ workers[w].pc = "p_except"
    /\ workers' = [workers EXCEPT ![w].pc = "p_finally"]
    /\ events' = Log(<<Progress("failure")>>)
    /\ lastOp' = StepOp
    /\ UNCHANGED <<queue, is_processing, cancel_flag, current_job_id,
                   nextId, doomed, requested, frame>>

\* mutant: the scratch directory is removed at the end of the try block
\* only, so not when the call raises
PipelineFinally_OnSuccessOnly(w) ==
    /\ workers[w].pc = "p_finally"
    /\ \E removed \in BOOLEAN :
         LET tried == workers[w].temp_dir /\ workers[w].exc = "none"
         IN  /\ workers' = [workers EXCEPT ![w] =
                  [@ EXCEPT !.temp_dir = @ /\ ~(tried /\ removed),
                            !.pc = "ret"]]
             /\ events' = Log(
                  IF ~tried THEN <<>>
                  ELSE IF removed THEN <<Progress("cleanup")>>
                  ELSE <<Progress("warning")>>)
    /\ doomed' = IF cancel_flag THEN Ids(queue) ELSE doomed
    /\ lastOp' = StepOp
    /\ UNCHANGED <<queue, is_processing, cancel_flag, current_job_id,
                   nextId, requested, frame>>

\* mutant: the OSError of a failed removal leaves the finally block
PipelineFinally_RemovalRaises(w) ==
    /\ workers[w].pc = "p_finally"
    /\ \E removed \in BOOLEAN :
         /\ workers' = [workers EXCEPT ![w] =
              [@ EXCEPT !.temp_dir = @ /\ ~removed,
                        !.exc = IF workers[w].temp_dir /\ ~removed
                                THEN "Other" ELSE @,
                        !.pc = "ret"]]
         /\ events' = Log(
              IF workers[w].temp_dir /\ removed
              THEN <<Progress("cleanup")>> ELSE <<>>)
    /\ doomed' = IF cancel_flag THEN Ids(queue) ELSE doomed
    /\ lastOp' = StepOp
    /\ UNCHANGED <<queue, is_processing, cancel_flag, current_job_id,
                   nextId, requested, frame>>

\* lines 305-311: remove the scratch directory, or warn when that fails;
\* process_media then returns or raises to _process_queue
PipelineFinally(w) ==
    /\ workers[w].pc = "p_finally"
    /\ \E removed \in BOOLEAN :
         /\ workers' = [workers EXCEPT ![w] =
              [@ EXCEPT !.temp_dir = @ /\ ~removed, !.pc = "ret"]]
         /\ events' = Log(
              IF ~workers[w].temp_dir THEN <<>>
              ELSE IF removed THEN <<Progress("cleanup")>>
              ELSE <<Progress("warning")>>)
    /\ doomed' = IF cancel_flag THEN Ids(queue) ELSE doomed
    /\ lastOp' = StepOp
    /\ UNCHANGED <<queue, is_processing, cancel_flag, current_job_id,
                   nextId, requested, frame>>

\* --------------------------------------------------------- _process_queue
\* how the loop was left
RunResult(raised) ==
    IF raised = "none" THEN "complete"
    ELSE IF raised = "CancelledError" THEN "cancelled"
    ELSE IF raised \in {"IndexError", "ZeroDivisionError"} THEN "crashed"
    ELSE "failed"

\* The locals of a thread that has left the loop for the finally block,
\* which reads none of them; failed records that a call of process_media
\* raised something other than CancelledError.
Leaving(raised) ==
    [IdleWorker EXCEPT !.pc = "fin_id",
                       !.failed = (RunResult(raised) = "failed")]

\* lines 284-286
QueueRunBegin(w) ==
    /\ workers[w].pc = "start"
    /\ workers' = [workers EXCEPT ![w] =
         [@ EXCEPT !.total_jobs = Len(queue), !.jobs_completed = 0,
                   !.pc = "loop"]]
    /\ lastOp' = StepOp
    /\ UNCHANGED <<queue, is_processing, cancel_flag, current_job_id,
                   nextId, doomed, requested, frameAll>>

\* line 289: while self.queue and not self.cancel_flag.is_set()
QueueRunTest(w) ==
    /\ workers[w].pc = "loop"
    /\ IF queue # <<>> /\ ~cancel_flag
       THEN /\ workers' = [workers EXCEPT ![w].pc = "take"]
            /\ lastOp' = StepOp
       ELSE /\ workers' = [workers EXCEPT ![w] = Leaving("none")]
            /\ lastOp' = Op("run", "none", workers[w].jobs_completed)
    /\ UNCHANGED <<queue, is_processing, cancel_flag, current_job_id,
                   nextId, doomed, requested, frameAll>>

\* mutant: the job taken is the last of the queue
QueueRunTake_Last(w) ==
    /\ workers[w].pc = "take"
    /\ queue # <<>>
    /\ workers[w].total_jobs # 0
    /\ current_job_id' = queue[Len(queue)].id
    /\ workers' = [workers EXCEPT ![w] =
         [@ EXCEPT !.job = queue[Len(queue)], !.job_successful = FALSE,
                   !.args = ProcessMediaArgs(queue[Len(queue)]),
                   !.exc = "none", !.pc = "p_setup"]]
    /\ lastOp' = StepOp
    /\ UNCHANGED <<queue, is_processing, cancel_flag, nextId, doomed,
                   requested, frameAll>>

\* lines 290-300: take the head, make it the current job, report the queue
\* progress jobs_completed / total_jobs, enter process_media.  queue[0] of
\* an empty list and a division by a total of 0 raise, which leaves the loop
\* through the finally block.
QueueRunTake(w) ==
    /\ workers[w].pc = "take"
    /\ IF queue = <<>>
       THEN /\ workers' = [workers EXCEPT ![w] = Leaving("IndexError")]
            /\ lastOp' = Op("run", "IndexError", workers[w].jobs_completed)
            /\ UNCHANGED current_job_id
       ELSE /\ current_job_id' = queue[1].id
            /\ IF workers[w].total_jobs = 0
               THEN /\ workers' = [workers EXCEPT ![w] =
                         Leaving("ZeroDivisionError")]
                    /\ lastOp' = Op("run", "ZeroDivisionError",
                                    workers[w].jobs_completed)
               ELSE /\ workers' = [workers EXCEPT ![w] =
                         [@ EXCEPT !.job = queue[1], !.job_successful = FALSE,
                                   !.args = ProcessMediaArgs(queue[1]),
                                   !.exc = "none", !.pc = "p_setup"]]
                    /\ lastOp' = StepOp
    /\ UNCHANGED <<queue, is_processing, cancel_flag, nextId, doomed,
                   requested, frameAll>>

\* mutant: a failed job is treated like a completed one
QueueRunOutcome_FailurePops(w) ==
    /\ workers[w].pc = "ret"
    /\ IF workers[w].exc # "CancelledError"
       THEN /\ workers' = [workers EXCEPT ![w] =
                 [@ EXCEPT !.job_successful = TRUE, !.args = NoArgs,
                           !.temp_dir = FALSE, !.pc = "pop"]]
            /\ lastOp' = StepOp
       ELSE /\ workers' = [workers EXCEPT ![w] = Leaving(workers[w].exc)]
            /\ lastOp' = Op("run", workers[w].exc, workers[w].jobs_completed)
    /\ UNCHANGED <<queue, is_processing, cancel_flag, current_job_id,
                   nextId, doomed, requested, frameAll>>

\* lines 305-311: the outcome of the call
QueueRunOutcome(w) ==
    /\ workers[w].pc = "ret"
    /\ IF workers[w].exc = "none"
       THEN /\ workers' = [workers EXCEPT ![w] =
                 [@ EXCEPT !.job_successful = TRUE, !.args = NoArgs,
                           !.temp_dir = FALSE, !.pc = "pop"]]
            /\ lastOp' = StepOp
       ELSE /\ workers' = [workers EXCEPT ![w] = Leaving(workers[w].exc)]
            /\ lastOp' = Op("run", workers[w].exc, workers[w].jobs_completed)
    /\ UNCHANGED <<queue, is_processing, cancel_flag, current_job_id,
                   nextId, doomed, requested, frameAll>>

\* lines 313-316
QueueRunPop(w) ==
    /\ workers[w].pc = "pop"
    /\ IF queue = <<>>
       THEN /\ workers' = [workers EXCEPT ![w] = Leaving("IndexError")]
            /\ lastOp' = Op("run", "IndexError", workers[w].jobs_completed)
            /\ UNCHANGED <<queue, doomed, requested>>
       ELSE /\ queue' = Tail(queue)
            /\ doomed' = doomed \cap Ids(Tail(queue))
            /\ requested' = Kept(requested, Tail(queue))
            /\ workers' = [workers EXCEPT ![w] =
                 [@ EXCEPT !.jobs_completed = @ + 1, !.job = NoJob,
                           !.job_successful = FALSE, !.pc = "loop"]]
            /\ lastOp' = StepOp
    /\ UNCHANGED <<is_processing, cancel_flag, current_job_id, nextId,
                   frameAll>>

\* line 318
QueueRunClearCurrent(w) ==
    /\ workers[w].pc = "fin_id"
    /\ current_job_id' = None
    /\ workers' = [workers EXCEPT ![w].pc = "fin_flag"]
    /\ lastOp' = StepOp
    /\ UNCHANGED <<queue, is_processing, cancel_flag, nextId, doomed,
                   requested, frameAll>>

\* line 319
QueueRunMarkInactive(w) ==
    /\ workers[w].pc = "fin_flag"
    /\ is_processing' = FALSE
    /\ workers' = [workers EXCEPT ![w].pc = "fin_check"]
    /\ lastOp' = StepOp
    /\ UNCHANGED <<queue, cancel_flag, current_job_id, nextId, doomed,
                   requested, frameAll>>

\* mutant: the finally block clears the queue whatever the flag says
QueueRunFinalTest_AlwaysClears(w) ==
    /\ workers[w].pc = "fin_check"
    /\ workers' = [workers EXCEPT ![w].pc = "fin_clear"]
    /\ lastOp' = StepOp
    /\ UNCHANGED <<queue, is_processing, cancel_flag, current_job_id, nextId,
                   doomed, requested, frameAll>>

\* lines 322, 327-332: the test of the cancel flag in the finally block;
\* with the flag clear the thread ends
QueueRunFinalTest(w) ==
    /\ workers[w].pc = "fin_check"
    /\ IF cancel_flag
       THEN /\ workers' = [workers EXCEPT ![w].pc = "fin_clear"]
            /\ lastOp' = StepOp
       ELSE /\ workers' = [workers EXCEPT ![w] = IdleWorker]
            /\ lastOp' = Op("run", "end_kept", 0)
    /\ UNCHANGED <<queue, is_processing, cancel_flag, current_job_id, nextId,
                   doomed, requested, frameAll>>

\* lines 323-326: drain the queue; the thread ends
QueueRunDrain(w) ==
    /\ workers[w].pc = "fin_clear"
    /\ queue' = <<>>
    /\ doomed' = {}
    /\ requested' = Kept(requested, <<>>)
    /\ workers' = [workers EXCEPT ![w] = IdleWorker]
    /\ lastOp' = Op("run", "end_drained", 0)
    /\ UNCHANGED <<is_processing, cancel_flag, current_job_id, nextId,
                   frameAll>>

\* ------------------------------------------------------------ the system
Caller ==
    \/ \E sub \in Submissions : add_job_to_queue(sub)
    \/ start_queue_thread
    \/ \E job_id \in 1..(nextId - 1) : remove_job_from_queue(job_id)
    \/ \E confirm \in BOOLEAN : clear_queue(confirm)
    \/ \E confirm \in BOOLEAN : cancel_processing(confirm)

Worker(w) ==
    \/ QueueRunBegin(w)
    \/ QueueRunTest(w)
    \/ QueueRunTake(w)
    \/ PipelineStage(w)
    \/ PipelineExcept(w)
    \/ PipelineFinally(w)
    \/ QueueRunOutcome(w)
    \/ QueueRunPop(w)
    \/ QueueRunClearCurrent(w)
    \/ QueueRunMarkInactive(w)
    \/ QueueRunFinalTest(w)
    \/ QueueRunDrain(w)

Next == Caller \/ \E w \in Workers : Worker(w)

Spec == Init /\ [][Next]_vars

\* the same system with the calls of one kind of operation recorded
InitClear == InitState /\ track = "clear"

SpecClear == InitClear /\ [][Next]_vars

InitEnqueue == InitState /\ track = "enqueue"

SpecEnqueue == InitEnqueue /\ [][Next]_vars

InitRemove == InitState /\ track = "remove"

SpecRemove == InitRemove /\ [][Next]_vars

InitRun == InitState /\ track = "run"

SpecRun == InitRun /\ [][Next]_vars

\* ------------------------------------------- process_media called directly
\* the export arguments a caller of process_media can pass
ExportChoices ==
    { [export_mode |-> "Video", export_format |-> "mp3",
       stems_to_export |-> <<>>],
      [export_mode |-> "Audio Only", export_format |-> "flac",
       stems_to_export |-> <<>>] }
    \cup { [export_mode |-> "Stems Only", export_format |-> "wav",
            stems_to_export |-> todo] :
              todo \in { <<>>, <<"vocals">>, <<"drums", "vocals">>,
                         <<"bass", "bass">> } }

\* the arguments of a direct call
DirectCall(settings, export) ==
    [ProcessMediaArgs(NewJob(1, Submission(LocalFile, "out", settings,
                                           export)))
       EXCEPT !.export_mode = export.export_mode,
              !.export_format = export.export_format,
              !.stems_to_export = export.stems_to_export]

DirectCalls ==
    {DirectCall(settings, export) :
        settings \in {SettingsA, SettingsB}, export \in ExportChoices}

\* the stems the separator leaves files for
DiskChoices == {StemSet, {"vocals", "drums"}, {"drums"}, {}}

\* thread 1 is inside a call of process_media, about to enter the try block
InitPipeline ==
    /\ EmptyApp
    /\ track = "pipeline"
    /\ calc = NoCalc
    /\ disk \in DiskChoices
    /\ \E a \in DirectCalls :
         workers = [w \in Workers |->
                      IF w = 1
                      THEN [IdleWorker EXCEPT !.pc = "p_setup", !.args = a]
                      ELSE IdleWorker]

\* cancel_flag.set() by the owner of the flag while the call runs
SetCancelFlag ==
    /\ ~cancel_flag
    /\ workers[1].pc # "ret"
    /\ cancel_flag' = TRUE
    /\ lastOp' = StepOp
    /\ UNCHANGED <<queue, is_processing, current_job_id, workers, nextId,
                   doomed, requested, frameAll>>

NextPipeline ==
    \/ SetCancelFlag
    \/ PipelineStage(1)
    \/ StemsExportBegin(1)
    \/ StemsExportStep(1)
    \/ PipelineExcept(1)
    \/ PipelineFinally(1)

SpecPipeline == InitPipeline /\ [][NextPipeline]_vars

\* ------------------------------------------------ the Split stage alone
\* what no step of a helper applied on its own writes
appVars ==
    <<queue, is_processing, cancel_flag, current_job_id, workers, nextId,
      lastOp, doomed, requested, track, events, disk>>

CHUNK_DURATION_SECONDS == 300

\* math.ceil(n / m) for n >= 0 and m > 0
Ceil(n, m) == (n + m - 1) \div m

\* mutant: one more than the whole chunks that fit
NumChunks_OneMoreThanWhole(halves, chunk_len) ==
    halves \div (2 * chunk_len) + 1

\* line 174: math.ceil(duration / CHUNK_DURATION_SECONDS) or 1, for an
\* audio of halves half seconds and chunks of chunk_len seconds
NumChunks(halves, chunk_len) ==
    IF Ceil(halves, 2 * chunk_len) = 0 THEN 1
    ELSE Ceil(halves, 2 * chunk_len)

Min(a, b) == IF a < b THEN a ELSE b

Max(a, b) == IF a < b THEN b ELSE a

\* lines 177-178: chunk file i is cut from offset i * chunk_len seconds and
\* is at most chunk_len seconds long; length is what the audio has there,
\* in half seconds
ChunkFile(i, halves, chunk_len) ==
    [index |-> i, start |-> i * chunk_len,
     length |-> Max(0, Min(2 * chunk_len, halves - 2 * i * chunk_len))]

\* the audio durations (in half seconds) and chunk lengths (in seconds)
SplitInputs ==
    { [halves |-> h, chunk_len |-> CHUNK_DURATION_SECONDS] :
        h \in {0, 1, 599, 600, 601, 1199, 1200, 1201, 1202, 1800} }
    \cup { [halves |-> h, chunk_len |-> len] :
             h \in 0..MaxHalves, len \in 1..MaxChunkLen }

InitSplit ==
    /\ EmptyApp
    /\ workers = [w \in Workers |-> IdleWorker]
    /\ disk = StemSet
    /\ track = "split"
    /\ \E in \in SplitInputs :
         calc = [op |-> "split", pc |-> "probe", halves |-> in.halves,
                 chunk_len |-> in.chunk_len, num_chunks |-> 0, i |-> 0,
                 chunks |-> <<>>]

\* lines 173-176: the duration is probed and the number of chunks computed
SplitCount ==
    /\ calc.op = "split"
    /\ calc.pc = "probe"
    /\ calc' = [calc EXCEPT !.num_chunks = NumChunks(calc.halves,
                                                     calc.chunk_len),
                            !.pc = "loop"]
    /\ UNCHANGED appVars

\* lines 177-179: one turn of the loop over range(num_chunks), or its end
SplitChunk ==
    /\ calc.op = "split"
    /\ calc.pc = "loop"
    /\ IF calc.i < calc.num_chunks
       THEN calc' = [calc EXCEPT
                       !.chunks = Append(@, ChunkFile(calc.i, calc.halves,
                                                      calc.chunk_len)),
                       !.i = @ + 1]
       ELSE calc' = [calc EXCEPT !.pc = "done"]
    /\ UNCHANGED appVars

NextSplit == SplitCount \/ SplitChunk

SpecSplit == InitSplit /\ [][NextSplit]_vars

\* ------------------------------------------------ hex_to_ass_color alone
\* A str is the sequence of its characters; a value that is not a str
\* (None, a number) has is_str FALSE.
HexDigits ==
    {"0", "1", "2", "3", "4", "5", "6", "7", "8", "9",
     "a", "b", "c", "d", "e", "f", "A", "B", "C", "D", "E", "F"}

\* str.upper on one character of the inputs
Upper(c) ==
    CASE c = "a" -> "A" [] c = "b" -> "B" [] c = "c" -> "C"
      [] c = "d" -> "D" [] c = "e" -> "E" [] c = "f" -> "F"
      [] c = "g" -> "G" [] OTHER -> c

\* line 36: re.match(r'^#[0-9a-fA-F]{6}$', hex_color); '$' matches at the
\* end of the string and also just before a newline that ends the string
MatchesHexPattern(chars) ==
    /\ Len(chars) >= 7
    /\ chars[1] = "#"
    /\ \A i \in 2..7 : chars[i] \in HexDigits
    /\ \/ Len(chars) = 7
       \/ Len(chars) = 8 /\ chars[8] = "\n"

\* line 37: the literal "&H00FFFFFF&"
FallbackColor ==
    <<"&", "H", "0", "0", "F", "F", "F", "F", "F", "F", "&">>

\* lines 35-39
hex_to_ass_color(v) ==
    IF ~v.is_str \/ ~MatchesHexPattern(v.chars)
    THEN FallbackColor
    ELSE [i \in 1..9 |->
            Upper((<<"&", "H">> \o SubSeq(v.chars, 6, 7)
                   \o SubSeq(v.chars, 4, 5) \o SubSeq(v.chars, 2, 3)
                   \o <<"&">>)[i])]

\* two characters for one colour byte: digits, both cases, not hexadecimal
BytePairs == {<<"0", "0">>, <<"a", "1">>, <<"F", "f">>, <<"g", "0">>}

\* the values the function is applied to: well-formed colours, colours
\* without '#', with characters that are not hexadecimal, too short, too
\* long, followed by newlines, and values that are not strings
ColorInputs ==
    { [is_str |-> TRUE, chars |-> lead \o r \o g \o b \o tail] :
        lead \in {<<"#">>, <<>>}, r \in BytePairs, g \in BytePairs,
        b \in BytePairs,
        tail \in {<<>>, <<"0">>, <<"\n">>, <<"\n", "\n">>} }
    \cup { [is_str |-> TRUE, chars |-> c] :
             c \in {<<>>, <<"#">>, <<"#", "a", "1", "F", "f", "0">>} }
    \cup { [is_str |-> FALSE, chars |-> <<>>] }

InitColor ==
    /\ EmptyApp
    /\ workers = [w \in Workers |-> IdleWorker]
    /\ disk = StemSet
    /\ track = "color"
    /\ \E v \in ColorInputs :
         calc = [op |-> "color", pc |-> "call", arg |-> v, result |-> <<>>]

\* one call of hex_to_ass_color
CallHexToAssColor ==
    /\ calc.op = "color"
    /\ calc.pc = "call"
    /\ calc' = [calc EXCEPT !.result = hex_to_ass_color(calc.arg),
                            !.pc = "done"]
    /\ UNCHANGED appVars

NextColor == CallHexToAssColor

SpecColor == InitColor /\ [][NextColor]_vars

\* ------------------------------------------------ the Effects stage alone
\* largest pitch shift, in semitones, of the inputs
MaxPitch == 2

\* the effect settings of a call: speed_multiplier in hundredths, so that
\* 100 is the 1.0 of line 230
EffectInputs ==
    { [normalize_volume |-> nv, pitch_shift |-> ps, speed_multiplier |-> sm] :
        nv \in BOOLEAN, ps \in (0 - MaxPitch)..MaxPitch,
        sm \in {50, 100, 150, 200} }

InitEffects ==
    /\ EmptyApp
    /\ workers = [w \in Workers |-> IdleWorker]
    /\ disk = StemSet
    /\ track = "effects"
    /\ \E in \in EffectInputs :
         calc = [op |-> "effects", pc |-> "test", args |-> in,
                 entered |-> FALSE, filters |-> <<>>]

\* lines 229-231: the stage is entered when an effect is requested, and
\* begins with check_cancel
EffectsTest ==
    /\ calc.op = "effects"
    /\ calc.pc = "test"
    /\ calc' =
         IF ~StageRuns("p_effects", calc.args)
         THEN [calc EXCEPT !.pc = "done"]
         ELSE IF cancel_flag
         THEN [calc EXCEPT !.pc = "cancelled"]
         ELSE [calc EXCEPT !.pc = "norm", !.entered = TRUE]
    /\ UNCHANGED appVars

\* lines 232-233
EffectsNormalize ==
    /\ calc.op = "effects"
    /\ calc.pc = "norm"
    /\ calc' = [calc EXCEPT
                  !.filters = IF calc.args.normalize_volume
                              THEN Append(@, "loudnorm") ELSE @,
                  !.pc = "pitch"]
    /\ UNCHANGED appVars

\* mutant: the pitch filter is added whatever the shift
EffectsPitch_Always ==
    /\ calc.op = "effects"
    /\ calc.pc = "pitch"
    /\ calc' = [calc EXCEPT !.filters = Append(@, "rubberband"),
                            !.pc = "tempo"]
    /\ UNCHANGED appVars

\* lines 234-236
EffectsPitch ==
    /\ calc.op = "effects"
    /\ calc.pc = "pitch"
    /\ calc' = [calc EXCEPT
                  !.filters = IF calc.args.pitch_shift # 0
                              THEN Append(@, "rubberband") ELSE @,
                  !.pc = "tempo"]
    /\ UNCHANGED appVars

\* lines 237-238
EffectsTempo ==
    /\ calc.op = "effects"
    /\ calc.pc = "tempo"
    /\ calc' = [calc EXCEPT
                  !.filters = IF calc.args.speed_multiplier # 100
                              THEN Append(@, "atempo") ELSE @,
                  !.pc = "done"]
    /\ UNCHANGED appVars

\* cancel_flag.set() by the owner of the flag while a helper runs
SetFlagDuring ==
    /\ calc.op # "none"
    /\ calc.pc \notin {"done", "cancelled", "raised"}
    /\ SetCancelFlag

NextEffects ==
    \/ SetFlagDuring
    \/ EffectsTest
    \/ EffectsNormalize
    \/ EffectsPitch
    \/ EffectsTempo

SpecEffects == InitEffects /\ [][NextEffects]_vars

\* ---------------------------------------------- the Separate stage alone
\* most lines the separation tool writes to its error stream
MaxLines == 3
\* most chunks handed to the separation tool
MaxChunks == 2

\* a line of the error stream: a progress line matching (\d+)%\| or other
\* text
PctLine(p) == [kind |-> "pct", pct |-> p]

TextLine == [kind |-> "text", pct |-> 0]

StreamLines == {PctLine(p) : p \in {0, 50, 95, 96, 100}} \cup {TextLine}

Streams ==
    UNION { [1..len -> StreamLines] : len \in 0..MaxLines }

\* lines 21-24: ProcessingError keeps details, or a placeholder when the
\* details are empty
NoDetails == <<[kind |-> "text", pct |-> -1]>>

ProcessingErrorDetails(details) ==
    IF details = <<>> THEN NoDetails ELSE details

\* line 196, as the fraction num / den
OverallProgress(chunks_processed, percentage, num_chunks) ==
    [num |-> 3000 * num_chunks + 40 * (100 * chunks_processed + percentage),
     den |-> 100 * num_chunks]

\* line 188: the tool has been started; stream is what it will write to
\* its error stream before it exits with returncode
InitSeparate ==
    /\ EmptyApp
    /\ workers = [w \in Workers |-> IdleWorker]
    /\ disk = StemSet
    /\ track = "separate"
    /\ \E st \in Streams, n \in 1..MaxChunks, rc \in {0, 1} :
         calc = [op |-> "separate", pc |-> "read", num_chunks |-> n,
                 stream |-> st, returncode |-> rc, seen |-> <<>>,
                 chunks_processed |-> 0, last_percentage |-> 0,
                 reports |-> <<>>, exc |-> "none", details |-> <<>>]

\* lines 191-197: one turn of the loop over the lines of the error stream,
\* which ends when the stream is at its end
SeparateReadLine ==
    /\ calc.op = "separate"
    /\ calc.pc = "read"
    /\ IF calc.stream = <<>>
       THEN calc' = [calc EXCEPT !.pc = "wait"]
       ELSE LET line == Head(calc.stream)
                drop == /\ line.pct < calc.last_percentage
                        /\ calc.last_percentage > 95
                cp == IF drop
                      THEN Min(calc.chunks_processed + 1, calc.num_chunks)
                      ELSE calc.chunks_processed
            IN  IF line.kind = "pct"
                THEN calc' = [calc EXCEPT
                       !.stream = Tail(@), !.seen = Append(@, line),
                       !.chunks_processed = cp,
                       !.last_percentage = line.pct,
                       !.reports = Append(@, OverallProgress(
                                      cp, line.pct, calc.num_chunks))]
                ELSE calc' = [calc EXCEPT !.stream = Tail(@),
                                          !.seen = Append(@, line)]
    /\ UNCHANGED appVars

\* lines 198-200: process.wait(); a non-zero return code raises
\* ProcessingError with process.stderr.read(), what is left of the stream
SeparateExit ==
    /\ calc.op = "separate"
    /\ calc.pc = "wait"
    /\ calc' =
         IF calc.returncode # 0
         THEN [calc EXCEPT !.pc = "raised", !.exc = "ProcessingError",
                           !.stream = <<>>,
                           !.details = ProcessingErrorDetails(calc.stream)]
         ELSE [calc EXCEPT !.pc = "done"]
    /\ UNCHANGED appVars

NextSeparate == SetFlagDuring \/ SeparateReadLine \/ SeparateExit

SpecSeparate == InitSeparate /\ [][NextSeparate]_vars

\* --------------------------------------------- the Mix+Merge stage alone
\* Files are named by the index of their chunk.  The audio in a file is
\* held by its length in half seconds.

RECURSIVE Digits(_)
\* the decimal digits of i
Digits(i) == IF i < 10 THEN <<i>> ELSE Append(Digits(i \div 10), i % 10)

\* f'{i:03d}': the digits of i, with zeros in front up to three characters
Pad3(i) ==
    LET d == Digits(i)
    IN  IF Len(d) >= 3 THEN d ELSE [k \in 1..(3 - Len(d)) |-> 0] \o d

\* line 207 and lines 212, 216: the part of the name 'mixed_chunk_NNN.wav'
\* in which the names of a directory differ, as character codes ('0' is 48,
\* '.' is 46)
MixedName(i) == [k \in 1..Len(Pad3(i)) |-> 48 + Pad3(i)[k]] \o <<46>>

RECURSIVE LexLess(_, _)
\* a < b for strings (sequences of character codes)
LexLess(a, b) ==
    IF b = <<>> THEN FALSE
    ELSE IF a = <<>> THEN TRUE
    ELSE IF Head(a) # Head(b) THEN Head(a) < Head(b)
    ELSE LexLess(Tail(a), Tail(b))

\* line 220: sorted(Path(mixed_chunks_dir).glob('*.wav')) for a directory
\* that holds the mixed files of the chunks listed in found: every file
\* goes to the place given by the number of names below its own
SortedByName(found) ==
    LET n == Len(found)
        names == SubSeq([i \in 1..n |-> MixedName(found[i])], 1, n)
        place == SubSeq([i \in 1..n |->
                    1 + Cardinality({j \in 1..n :
                            LexLess(names[j], names[i])})], 1, n)
    IN  SubSeq([k \in 1..n |-> found[CHOOSE i \in 1..n : place[i] = k]],
               1, n)

\* stem_volumes.get(s, 0)
VolumeOf(stem_volumes, s) ==
    IF s \in DOMAIN stem_volumes THEN stem_volumes[s] ELSE 0

\* mutant: a stem is mixed whenever its file exists
ValidStems_AnyVolume(i, files, stem_volumes) ==
    SelectSeq(stems, LAMBDA s : <<i, s>> \in files)

\* line 209: the stems of chunk i whose separated file exists and whose
\* volume is above 0, in the order of stems
ValidStems(i, files, stem_volumes) ==
    SelectSeq(stems, LAMBDA s :
        <<i, s>> \in files /\ VolumeOf(stem_volumes, s) > 0)

\* lines 210-216: the mixed file of chunk i: silence of the configured
\* chunk length when no stem is valid, else the mix of the valid stems,
\* as long as the longest of them (a separated file is as long as its
\* chunk)
MixedFile(i, valid_stems, halves, chunk_len) ==
    IF valid_stems = <<>>
    THEN [index |-> i, kind |-> "silence", stems |-> <<>>,
          length |-> 2 * chunk_len]
    ELSE [index |-> i, kind |-> "mix", stems |-> valid_stems,
          length |-> ChunkFile(i, halves, chunk_len).length]

\* durations (half seconds) and chunk lengths (seconds) of the audio mixed
MixInputs ==
    { [halves |-> 1202, chunk_len |-> CHUNK_DURATION_SECONDS],
      [halves |-> 1200, chunk_len |-> CHUNK_DURATION_SECONDS],
      [halves |-> 3, chunk_len |-> 1],
      [halves |-> 1, chunk_len |-> 1] }

\* the mixer settings of the call
VolumeChoices ==
    { [s \in StemSet |-> 100],
      [s \in StemSet |-> IF s = "vocals" THEN 0 ELSE 100],
      [s \in StemSet |-> 0],
      [s \in {"vocals"} |-> 50] }

\* the separated files the tool left for n chunks
FileChoices(n) ==
    { {<<c, s>> : c \in C, s \in S} :
        C \in SUBSET (0..(n - 1)),
        S \in {StemSet, {"vocals"}, {"vocals", "drums"}} }

\* the state of the stage after line 205
MixState(in, files, stem_volumes) ==
    [op |-> "mix", pc |-> "loop", halves |-> in.halves,
     chunk_len |-> in.chunk_len,
     num_chunks |-> NumChunks(in.halves, in.chunk_len), i |-> 0,
     files |-> files, stem_volumes |-> stem_volumes, mixed |-> <<>>,
     listing |-> <<>>, k |-> 0, concat |-> <<>>, exc |-> "none",
     merged |-> 0]

InitMix ==
    /\ EmptyApp
    /\ workers = [w \in Workers |-> IdleWorker]
    /\ disk = StemSet
    /\ track = "mix"
    /\ \E in \in MixInputs, v \in VolumeChoices :
         \E f \in FileChoices(NumChunks(in.halves, in.chunk_len)) :
            calc = MixState(in, f, v)

\* lines 206-216: one turn of the loop over range(num_chunks), or its end
MixChunk ==
    /\ calc.op = "mix"
    /\ calc.pc = "loop"
    /\ IF calc.i >= calc.num_chunks
       THEN calc' = [calc EXCEPT !.pc = "sort"]
       ELSE \E outcome \in {"ok", "FfmpegError"} :
              calc' =
                IF outcome = "ok"
                THEN [calc EXCEPT
                        !.mixed = Append(@, MixedFile(calc.i,
                                     ValidStems(calc.i, calc.files,
                                                calc.stem_volumes),
                                     calc.halves, calc.chunk_len)),
                        !.i = @ + 1]
                ELSE [calc EXCEPT !.pc = "raised", !.exc = outcome]
    /\ UNCHANGED appVars

\* lines 218-222: the mixed files are listed in the order of their names
MixSort ==
    /\ calc.op = "mix"
    /\ calc.pc = "sort"
    /\ LET found == [j \in 1..Len(calc.mixed) |-> calc.mixed[j].index]
       IN  calc' =
             IF found = <<>>
             THEN [calc EXCEPT !.pc = "raised", !.exc = "Other"]
             ELSE [calc EXCEPT !.listing = SortedByName(found),
                               !.k = 1, !.pc = "write"]
    /\ UNCHANGED appVars

\* lines 223-224: one line of the concat list, or the end of the list
MixWrite ==
    /\ calc.op = "mix"
    /\ calc.pc = "write"
    /\ calc' =
         IF calc.k > Len(calc.listing)
         THEN [calc EXCEPT !.pc = "concat"]
         ELSE [calc EXCEPT !.concat = Append(@, calc.listing[calc.k]),
                           !.k = @ + 1]
    /\ UNCHANGED appVars

RECURSIVE RangeLength(_, _, _, _)
\* the length of the files of mixed named at the places lo..hi of order
RangeLength(order, mixed, lo, hi) ==
    IF lo > hi THEN 0
    ELSE IF lo = hi THEN mixed[order[lo] + 1].length
    ELSE LET mid == (lo + hi) \div 2
         IN  RangeLength(order, mixed, lo, mid)
             + RangeLength(order, mixed, mid + 1, hi)

\* the length of the files of mixed named in order, one after the other
TotalLength(order, mixed) == RangeLength(order, mixed, 1, Len(order))

\* lines 225-226: ffmpeg concatenates the files of the list
MixConcat ==
    /\ calc.op = "mix"
    /\ calc.pc = "concat"
    /\ \E outcome \in {"ok", "FfmpegError"} :
         calc' =
           IF outcome = "ok"
           THEN [calc EXCEPT !.pc = "done",
                             !.merged = TotalLength(calc.concat, calc.mixed)]
           ELSE [calc EXCEPT !.pc = "raised", !.exc = outcome]
    /\ UNCHANGED appVars

NextMix == SetFlagDuring \/ MixChunk \/ MixSort \/ MixWrite \/ MixConcat

SpecMix == InitMix /\ [][NextMix]_vars

\* ---------------------------------------------------- the merge alone
\* most chunks of an audio merged (one more than 'chunk_999')
MaxMergeChunks == 1001

\* the chunk counts of the audio merged
MergeCounts == {1, 2, 11, 101, MaxMergeChunks}

\* the state at line 218 for an audio of n chunks of one second, each
\* mixed from its vocals
InitMerge ==
    /\ EmptyApp
    /\ workers = [w \in Workers |-> IdleWorker]
    /\ disk = StemSet
    /\ track = "merge"
    /\ \E n \in MergeCounts :
         calc = [MixState([halves |-> 2 * n, chunk_len |-> 1],
                          {<<c, "vocals">> : c \in 0..(n - 1)},
                          [s \in StemSet |-> 100])
                   EXCEPT !.i = n, !.pc = "sort",
                          !.mixed = [j \in 1..n |->
                              MixedFile(j - 1, <<"vocals">>, 2 * n, 1)]]

NextMerge == MixSort \/ MixWrite \/ MixConcat

SpecMerge == InitMerge /\ [][NextMerge]_vars

\* ------------------------------------------- _generate_karaoke_subtitles
\* The times of a transcription are Python floats (binary64).  A float that
\* is not negative is held as [int, frac]: its whole part, and the bits of
\* its fraction after the binary point.  A float has at most 53 significant
\* bits; every operation rounds its exact result to the nearest such value,
\* ties to the even one.

RECURSIVE BitLen(_)
\* the number of bits of the natural number n
BitLen(n) == IF n = 0 THEN 0 ELSE 1 + BitLen(n \div 2)

\* the number of zero bits before the first one bit
LeadingZeros(bits) ==
    IF \A i \in 1..Len(bits) : bits[i] = 0 THEN Len(bits)
    ELSE (CHOOSE i \in 1..Len(bits) :
              bits[i] = 1 /\ \A j \in 1..(i - 1) : bits[j] = 0) - 1

\* bits plus one unit in the last place, and the carry out of the first
IncBits(bits) ==
    LET n == Len(bits)
        zeros == {i \in 1..n : bits[i] = 0}
        z == IF zeros = {} THEN 0
             ELSE CHOOSE i \in zeros : \A j \in zeros : j <= i
    IN  [carry |-> IF z = 0 THEN 1 ELSE 0,
         bits |-> SubSeq([i \in 1..n |-> IF i < z THEN bits[i]
                                          ELSE IF i = z THEN 1 ELSE 0],
                         1, n)]

\* the float nearest to the exact value x
RoundDouble(x) ==
    LET keep == IF x.int > 0 THEN 53 - BitLen(x.int)
                ELSE LeadingZeros(x.frac) + 53
    IN  IF Len(x.frac) <= keep THEN x
        ELSE LET kept == SubSeq(x.frac, 1, keep)
                 rest == \E i \in (keep + 2)..Len(x.frac) : x.frac[i] = 1
                 odd == IF keep = 0 THEN x.int % 2 = 1 ELSE kept[keep] = 1
                 r == IncBits(kept)
             IN  IF x.frac[keep + 1] = 1 /\ (rest \/ odd)
                 THEN [int |-> x.int + r.carry, frac |-> r.bits]
                 ELSE [int |-> x.int, frac |-> kept]

RECURSIVE DivBits(_, _, _)
\* the first 2 * pairs bits of rem / den (rem < den), followed by a 1 when
\* the division is not over
DivBits(rem, den, pairs) ==
    IF pairs = 0 THEN (IF rem = 0 THEN <<>> ELSE <<1>>)
    ELSE LET q == (4 * rem) \div den
         IN  <<q \div 2, q % 2>> \o DivBits((4 * rem) % den, den, pairs - 1)

\* the float that a time of cs hundredths of a second is held as
FloatOfCs(cs) ==
    RoundDouble([int |-> cs \div 100, frac |-> DivBits(cs % 100, 100, 32)])

\* a - b for two fractions of the same length, and the borrow out
SubBits(a, b) ==
    LET n == Len(a)
        borrow(i) == \E j \in (i + 1)..n :
                         /\ a[j] < b[j]
                         /\ \A k \in (i + 1)..(j - 1) : a[k] = b[k]
    IN  [borrow |-> IF borrow(0) THEN 1 ELSE 0,
         bits |-> SubSeq([i \in 1..n |->
                     (a[i] - b[i] + 2 - (IF borrow(i) THEN 1 ELSE 0)) % 2],
                         1, n)]

\* x - y for floats x >= y
SubDouble(x, y) ==
    LET n == Max(Len(x.frac), Len(y.frac))
        a == x.frac \o [i \in 1..(n - Len(x.frac)) |-> 0]
        b == y.frac \o [i \in 1..(n - Len(y.frac)) |-> 0]
        d == SubBits(a, b)
    IN  RoundDouble([int |-> x.int - y.int - d.borrow, frac |-> d.bits])

\* a + b for two bit strings of the same length (no carry out)
AddBits(a, b) ==
    LET n == Len(a)
        carry(i) == \E j \in (i + 1)..n :
                        /\ a[j] + b[j] = 2
                        /\ \A k \in (i + 1)..(j - 1) : a[k] + b[k] = 1
    IN  SubSeq([i \in 1..n |->
                   (a[i] + b[i] + (IF carry(i) THEN 1 ELSE 0)) % 2], 1, n)

\* x * 100: 64 x + 32 x + 4 x on the fraction, with seven bits for what
\* goes over into the whole part
Times100(x) ==
    LET n == Len(x.frac)
        shifted(s) == [i \in 1..(7 - s) |-> 0] \o x.frac
                          \o [i \in 1..s |-> 0]
        sum == AddBits(AddBits(shifted(6), shifted(5)), shifted(2))
        over == 64 * sum[1] + 32 * sum[2] + 16 * sum[3] + 8 * sum[4]
                    + 4 * sum[5] + 2 * sum[6] + sum[7]
    IN  RoundDouble([int |-> 100 * x.int + over,
                     frac |-> SubSeq(sum, 8, n + 7)])

\* line 16, as a float
LYRIC_PRE_DISPLAY_OFFSET_SECONDS == [int |-> 0, frac |-> <<1>>]

\* line 73: max(0, start - 0.5)
LeadTime(x) ==
    IF x.int = 0 /\ (x.frac = <<>> \/ x.frac[1] = 0)
    THEN [int |-> 0, frac |-> <<>>]
    ELSE SubDouble(x, LYRIC_PRE_DISPLAY_OFFSET_SECONDS)

\* lines 74-75: the numbers printed for hours, minutes, seconds and
\* hundredths; //, % and int() are exact, the product by 100 is rounded
TimeFields(x) ==
    <<x.int \div 3600, (x.int % 3600) \div 60, x.int % 60,
      Times100([int |-> 0, frac |-> x.frac]).int>>

\* line 80, for a word that does not end before it starts
KaraokeDuration(word) ==
    Times100(SubDouble(FloatOfCs(word.end), FloatOfCs(word.start))).int

\* str.strip() for a text of letters and blanks
Strip(text) ==
    LET inked == {i \in 1..Len(text) : text[i] # " "}
    IN  IF inked = {} THEN <<>>
        ELSE SubSeq(text, CHOOSE i \in inked : \A j \in inked : i <= j,
                          CHOOSE i \in inked : \A j \in inked : j <= i)

\* lines 71-86: the Dialogue line of a segment
Dialogue(segment) ==
    [start |-> TimeFields(LeadTime(FloatOfCs(segment.start))),
     end |-> TimeFields(FloatOfCs(segment.end)),
     parts |-> [j \in 1..Len(segment.words) |->
                   [k |-> KaraokeDuration(segment.words[j]),
                    text |-> Strip(segment.words[j].word)]]]

\* times of a transcription, in hundredths of a second: 0.29 s, 0.57 s,
\* 1 s and 1 h 1 min 0.29 s among them
SubtitleTimes == {0, 29, 57, 100, 366029}

SubtitleWords ==
    {w \in [start : SubtitleTimes, end : SubtitleTimes,
            word : {<<" ", "l", "a">>, <<"d", "a", " ">>}] :
        w.start <= w.end}

\* segments without words, of one word and of two
SubtitleSegments ==
    {g \in [start : SubtitleTimes, end : SubtitleTimes, words : {<<>>}] :
        g.start <= g.end}
    \cup {[start |-> w.start, end |-> w.end, words |-> <<w>>] :
             w \in SubtitleWords}
    \cup {[start |-> p[1].start, end |-> p[2].end, words |-> p] :
             p \in {q \in SubtitleWords \X SubtitleWords :
                       q[1].end <= q[2].start /\ q[1].word # q[2].word}}

\* largest number of segments of a transcription
MaxSegments == 2

Transcriptions ==
    UNION {{t \in [1..n -> SubtitleSegments] :
               \A i \in 1..(n - 1) : t[i].end <= t[i + 1].start} :
           n \in 0..MaxSegments}

InitSubtitles ==
    /\ EmptyApp
    /\ workers = [w \in Workers |-> IdleWorker]
    /\ disk = StemSet
    /\ track = "subtitles"
    /\ \E t \in Transcriptions :
         \E c \in {[is_str |-> TRUE,
                    chars |-> <<"#", "F", "F", "F", "F", "0", "0">>],
                   [is_str |-> FALSE, chars |-> <<>>]} :
           calc = [op |-> "subtitles", pc |-> "header", segments |-> t,
                   highlight_color |-> c, i |-> 0, style |-> <<>>,
                   events |-> <<>>]

\* lines 46-69: the colours, then the sections up to the Format line of
\* [Events]
SubtitleHeader ==
    /\ calc.op = "subtitles"
    /\ calc.pc = "header"
    /\ calc' = [calc EXCEPT !.pc = "events",
                  !.style = hex_to_ass_color(calc.highlight_color)]
    /\ UNCHANGED appVars

\* lines 71-86: one turn of the loop over the segments
SubtitleCue ==
    /\ calc.op = "subtitles"
    /\ calc.pc = "events"
    /\ calc.i < Len(calc.segments)
    /\ calc' = [calc EXCEPT !.i = calc.i + 1,
                  !.events = Append(calc.events,
                                    Dialogue(calc.segments[calc.i + 1]))]
    /\ UNCHANGED appVars

\* the loop is over and the file is closed
SubtitleClose ==
    /\ calc.op = "subtitles"
    /\ calc.pc = "events"
    /\ calc.i = Len(calc.segments)
    /\ calc' = [calc EXCEPT !.pc = "done"]
    /\ UNCHANGED appVars

NextSubtitles == SubtitleHeader \/ SubtitleCue \/ SubtitleClose

SpecSubtitles == InitSubtitles /\ [][NextSubtitles]_vars

\* a thread that has been started keeps being scheduled
FairSpec == Spec /\ \A w \in Workers : WF_vars(Worker(w))


\* ---------------------------------------------------------------- claims
PipelinePcs ==
    {StageOrder[i] : i \in 1..Len(StageOrder)}
        \cup {"p_stems", "p_except", "p_finally"}

FinallyPcs == {"fin_id", "fin_flag", "fin_check", "fin_clear"}

\* thread w takes a step of _process_queue
Moves(w) == workers[w].pc # "idle" /\ workers'[w].pc # workers[w].pc

IsFailure(raised) == raised \notin {"none", "CancelledError"}

IdSeq(q) == [i \in 1..Len(q) |-> q[i].id]

\* q with zero or more jobs appended
Extends(q2, q) == Len(q2) >= Len(q) /\ SubSeq(q2, 1, Len(q)) = q

\* C1: when a job's run succeeds the worker pops it; when the next job's
\* run raises ProcessingError (or any exception but CancelledError) the
\* worker leaves the loop without touching the queue, starts no further
\* job, and removes nothing on its way out unless it finds the cancel flag
\* set; as long as no stop has been requested (the flag is clear and no
\* thread is in the clearing branch) nothing removes a job while the failed
\* run is still marked active: for [A,B,C] with A succeeding and B failing,
\* A is gone and B, C stay in their order.
C1_FailureHaltsAndKeeps ==
    [][\A w \in Workers :
         /\ (workers[w].pc = "pop" /\ Moves(w) /\ queue # <<>>)
              => queue' = Tail(queue)
         /\ (workers[w].pc = "ret" /\ IsFailure(workers[w].exc) /\ Moves(w))
              => /\ workers'[w].pc = "fin_id"
                 /\ workers'[w].failed
                 /\ queue' = queue
         /\ (workers[w].failed /\ Moves(w))
              => /\ workers'[w].pc \in FinallyPcs \cup {"idle"}
                 /\ workers'[w].pc = "fin_clear" => cancel_flag
                 /\ workers[w].pc # "fin_clear" => queue' = queue
         /\ ( /\ workers[w].failed
              /\ workers[w].pc \in {"fin_id", "fin_flag"}
              /\ ~cancel_flag
              /\ \A v \in Workers : workers[v].pc # "fin_clear" )
              => Extends(queue', queue)
      ]_vars

\* the run has completed and popped A, B has raised ProcessingError, the
\* worker has left the loop and B and C are in the queue
C1_Witness ==
    /\ lastOp = [op |-> "run", res |-> "ProcessingError", arg |-> 1]
    /\ \E w \in Workers : workers[w].failed /\ workers[w].pc = "fin_id"
    /\ ~cancel_flag
    /\ nextId = 4
    /\ IdSeq(queue) = <<2, 3>>

\* C2: once a call of process_media has ended with the cancel flag set, no
\* job that was in the queue at that moment is handed to process_media
\* again, and when every thread has ended none of them is left in the queue.
C2_StopClearsBacklog ==
    /\ \A w \in Workers :
         workers[w].pc \in PipelinePcs => workers[w].job.id \notin doomed
    /\ (\A w \in Workers : workers[w].pc = "idle") => doomed = {}

\* C3 as stated: after a call of process_media has raised something other
\* than CancelledError, no step of that thread removes a job from the queue.
C3_FailureNeverDrops ==
    [][\A w \in Workers :
         (workers[w].failed /\ Moves(w)) => Ids(queue) \subseteq Ids(queue')
      ]_vars

\* C3, amended: after a call of process_media has raised something other
\* than CancelledError the thread starts no further job and goes through
\* its finally block; what decides the fate of the backlog is the cancel
\* flag at the test of line 322, not the kind of the exception: with the
\* flag clear the thread ends and leaves the queue as it is, with the flag
\* set it clears the whole queue; no other step of the thread changes the
\* queue.
C3_FlagDecidesBacklog ==
    [][\A w \in Workers :
         (workers[w].failed /\ Moves(w))
           => /\ workers'[w].pc \in FinallyPcs \cup {"idle"}
              /\ workers[w].pc = "fin_check"
                   => IF cancel_flag
                      THEN workers'[w].pc = "fin_clear" /\ queue' = queue
                      ELSE workers'[w].pc = "idle" /\ queue' = queue
              /\ workers[w].pc = "fin_clear"
                   => workers'[w].pc = "idle" /\ queue' = <<>>
              /\ workers[w].pc \notin {"fin_check", "fin_clear"}
                   => queue' = queue
      ]_vars

\* a thread whose job failed has found the flag set and is about to clear a
\* queue that still holds jobs
C3_Witness ==
    \E w \in Workers :
        /\ workers[w].failed
        /\ workers[w].pc = "fin_clear"
        /\ queue # <<>>

\* C4: at most one thread is inside _process_queue.
C4_OneWorker ==
    Cardinality({w \in Workers : workers[w].pc \notin {"idle", "start"}}) <= 1

\* C5: at most one thread is inside process_media; the job handed to
\* process_media is the head of the queue and no job in the queue was
\* enqueued before it (ids grow in enqueue order); a thread goes on to the
\* next job only from the start of its run or after the previous call has
\* returned without raising and the pop has left that job out of the queue.
C5_OneAtATimeInOrder ==
    /\ [](Cardinality({w \in Workers : workers[w].pc \in PipelinePcs}) <= 1)
    /\ [][\A w \in Workers :
            /\ (workers[w].pc = "take" /\ workers'[w].pc \in PipelinePcs)
                 => /\ workers'[w].job = queue[1]
                    /\ \A i \in 1..Len(queue) : queue[i].id >= queue[1].id
                    /\ \A v \in Workers : workers[v].pc \notin PipelinePcs
            /\ ( /\ workers'[w].pc \in PipelinePcs
                 /\ workers[w].pc \notin PipelinePcs )
                 => workers[w].pc = "take"
            /\ (workers'[w].pc = "take" /\ Moves(w)) => workers[w].pc = "loop"
            /\ (workers'[w].pc = "loop" /\ Moves(w))
                 => \/ workers[w].pc = "start"
                    \/ /\ workers[w].pc = "pop"
                       /\ workers[w].job_successful
                       /\ workers[w].exc = "none"
                       /\ workers[w].job.id \notin Ids(queue')
            /\ (workers'[w].pc = "pop" /\ Moves(w))
                 => workers[w].pc = "ret" /\ workers[w].exc = "none"
         ]_vars

\* the run has completed and popped the first job and has handed the second
\* one to process_media, with the third waiting behind it
C5_Witness ==
    /\ IdSeq(queue) = <<2, 3>>
    /\ \E w \in Workers :
         /\ workers[w].pc = "p_setup"
         /\ workers[w].jobs_completed = 1
         /\ workers[w].job.id = 2

\* the submissions enqueue has to accept: an existing local path or a
\* recognized remote-video URL, with an output directory
C6_Acceptable ==
    {sub \in Submissions :
        sub.source \in {LocalFile, YoutubeUrl} /\ sub.output_dir # ""}

\* C6: a call of enqueue with an acceptable submission appends one job made
\* from it behind the jobs of the queue; a call with any other submission
\* is rejected and leaves the queue, is_processing and the cancel flag as
\* they were.
C6_EnqueueValidates ==
    [][lastOp'.op = "enqueue" =>
         /\ is_processing' = is_processing
         /\ cancel_flag' = cancel_flag
         /\ IF lastOp'.arg \in C6_Acceptable
            THEN /\ lastOp'.res = "ok"
                 /\ Len(queue') = Len(queue) + 1
                 /\ SubSeq(queue', 1, Len(queue)) = queue
                 /\ queue'[Len(queue')].source = lastOp'.arg.source
                 /\ queue'[Len(queue')].output_dir = lastOp'.arg.output_dir
            ELSE /\ lastOp'.res = "rejected"
                 /\ queue' = queue
      ]_vars

\* a job with a recognized URL has just been appended behind another job
C6_Witness ==
    /\ lastOp.op = "enqueue"
    /\ lastOp.res = "ok"
    /\ Len(queue) = 2
    /\ queue[2].source = YoutubeUrl
    /\ queue[1].id = 1

RECURSIVE C7_Drop(_, _)
\* q without the jobs whose id is job_id, the others in their order
C7_Drop(q, job_id) ==
    IF q = <<>> THEN <<>>
    ELSE IF Head(q).id = job_id THEN C7_Drop(Tail(q), job_id)
    ELSE <<Head(q)>> \o C7_Drop(Tail(q), job_id)

\* C7: a call of removeJob(id) made while is_processing is set leaves the
\* queue unchanged; made while it is clear, it leaves the queue without the
\* jobs of that id and with the other jobs in their order.
C7_RemoveJob ==
    [][lastOp'.op = "remove" =>
         IF is_processing
         THEN lastOp'.res = "rejected" /\ queue' = queue
         ELSE lastOp'.res = "ok" /\ queue' = C7_Drop(queue, lastOp'.arg)
      ]_vars

\* job 2 has just been removed from between jobs 1 and 3
C7_Witness ==
    /\ lastOp = [op |-> "remove", res |-> "ok", arg |-> 2]
    /\ IdSeq(queue) = <<1, 3>>
    /\ ~is_processing

\* C8 as stated: a clear() made while a run is active and after the caller
\* has requested its stop is not refused.
C8_ClearAcceptedAfterStop ==
    (lastOp.op = "clear" /\ is_processing /\ cancel_flag)
        => lastOp.res # "rejected"

\* C8, amended: a clear() the caller confirms empties the queue when
\* is_processing is clear; while is_processing is set it is refused and
\* leaves the queue unchanged, whether or not a stop has been requested.
C8_ClearOnlyWhenInactive ==
    [][lastOp'.op = "clear" =>
         IF is_processing
         THEN lastOp'.res = "rejected" /\ queue' = queue
         ELSE IF lastOp'.arg = 1
              THEN queue' = <<>> /\ lastOp'.res \in {"ok", "declined"}
              ELSE queue' = queue /\ lastOp'.res = "declined"
      ]_vars

\* a clear() has just been refused although the stop of the run had been
\* requested and jobs are waiting
C8_Witness ==
    /\ lastOp = [op |-> "clear", res |-> "rejected", arg |-> 1]
    /\ is_processing
    /\ cancel_flag
    /\ queue # <<>>

\* C9: once the stop of an active run has been requested, the run ends with
\* is_processing clear and the queue empty.
C9_CancelEndsRun ==
    (is_processing /\ cancel_flag) ~> (~is_processing /\ queue = <<>>)

\* C10: a call of process_media gets the export mode, the export format and
\* the stems to export that were chosen for the job it runs.
C10_RunUsesJobExport ==
    \A w \in Workers :
        ( /\ workers[w].pc \in PipelinePcs
          /\ requested[workers[w].job.id] # NoExport )
        => LET chosen == requested[workers[w].job.id]
               args == workers[w].args
           IN  /\ args.export_mode = chosen.export_mode
               /\ args.export_format = chosen.export_format
               /\ args.stems_to_export = chosen.stems_to_export

\* C11: no stage of a call of process_media has an external effect when the
\* cancel flag was set before the stage began.
C11_NoEffectOnceStopped ==
    \A i \in 1..Len(events) :
        events[i].kind = "effect" => ~events[i].stopped

\* positions of the entries of the history that are equal to e
At(e) == {i \in 1..Len(events) : events[i] = e}

\* C12: when a call of process_media that made its scratch directory has
\* returned or raised, whatever the way out, the removal of the directory
\* was attempted after it was made (a cleanup event or a warning follows),
\* and when the removal succeeded the directory is gone.
C12_ScratchRemovalAttempted ==
    \A w \in Workers :
        (workers[w].pc = "ret" /\ At(ScratchMade) # {})
        => /\ \E i \in At(Progress("cleanup")) \cup At(Progress("warning")) :
                \A j \in At(ScratchMade) : j < i
           /\ At(Progress("cleanup")) # {} => ~workers[w].temp_dir
           /\ At(Progress("cleanup")) = {} => workers[w].temp_dir

\* an Audio Only call has returned early, its scratch directory removed
C12_Witness ==
    /\ workers[1].pc = "ret"
    /\ workers[1].exc = "none"
    /\ workers[1].args.export_mode = "Audio Only"
    /\ At(ScratchMade) # {}
    /\ At(Progress("cleanup")) # {}
    /\ ~workers[1].temp_dir

\* C13: the finally block of process_media never changes how the call
\* ends: it hands on the exception the call was about to raise, or none,
\* and a removal of the scratch directory that fails adds one warning event
\* and nothing else.
C13_RemovalFailureIsWarning ==
    [][\A w \in Workers :
         (workers[w].pc = "p_finally" /\ Moves(w))
           => /\ workers'[w].pc = "ret"
              /\ workers'[w].exc = workers[w].exc
              /\ (workers[w].temp_dir /\ workers'[w].temp_dir)
                   => events' = Append(events, Progress("warning"))
      ]_vars

\* a call has returned normally although its scratch directory could not be
\* removed
C13_Witness ==
    /\ workers[1].pc = "ret"
    /\ workers[1].exc = "none"
    /\ workers[1].temp_dir
    /\ events[Len(events)] = Progress("warning")
    /\ At(Progress("success")) # {}

StagePcs == {StageOrder[i] : i \in 1..Len(StageOrder)} \cup {"p_stems"}

\* C14: a stage that begins with a checkpoint raises CancelledError when
\* the flag is set; once CancelledError is raised the call runs no further
\* stage, only its except and finally blocks, and leaves with that same
\* CancelledError; the queue worker then leaves its loop by the
\* cancellation branch: it is not marked as failed and the queue is as it
\* was.
C14_CancelShortCircuits ==
    [][\A w \in Workers :
         /\ ( /\ workers[w].pc \in StagePcs \ {"p_stems"}
              /\ HasCheckpoint(workers[w].pc, workers[w].args)
              /\ cancel_flag
              /\ Moves(w) )
              => workers'[w].exc = "CancelledError"
         /\ ( /\ workers[w].pc \in StagePcs
              /\ workers'[w].exc = "CancelledError"
              /\ Moves(w) )
              => workers'[w].pc = "p_except"
         /\ ( /\ workers[w].pc \in {"p_except", "p_finally"}
              /\ workers[w].exc = "CancelledError"
              /\ Moves(w) )
              => /\ workers'[w].exc = "CancelledError"
                 /\ workers'[w].pc \in {"p_finally", "ret"}
         /\ ( /\ workers[w].pc = "ret"
              /\ workers[w].exc = "CancelledError"
              /\ Moves(w) )
              => /\ workers'[w].pc = "fin_id"
                 /\ ~workers'[w].failed
                 /\ lastOp'.res = "CancelledError"
                 /\ queue' = queue
      ]_vars

\* a call has left with CancelledError and the worker has taken the
\* cancellation branch out of its loop
C14_Witness ==
    /\ lastOp.op = "run"
    /\ lastOp.res = "CancelledError"
    /\ \E w \in Workers : workers[w].pc = "fin_id" /\ ~workers[w].failed
    /\ cancel_flag

\* C15: when a call of process_media raises, what it raises is a
\* CancelledError or a ProcessingError.
C15_OnlyProcessingErrors ==
    \A w \in Workers :
        workers[w].pc = "ret"
        => workers[w].exc \in {"none", "CancelledError", "ProcessingError"}

\* the call has sent its failure event, then its cleanup event or warning
\* if it had made a scratch directory, and nothing after that
FailureReported ==
    LET n == Len(events)
    IN  /\ At(Progress("failure")) # {}
        /\ At(Progress("success")) = {}
        /\ IF At(ScratchMade) = {}
           THEN events[n] = Progress("failure")
           ELSE /\ n >= 2
                /\ events[n - 1] = Progress("failure")
                /\ events[n] \in {Progress("cleanup"), Progress("warning")}

\* C16: an exception raised in a stage takes the call to its except block,
\* which sends the failure event, then to its finally block, and leaves the
\* call unchanged; so a call that ends with an exception has sent a failure
\* event, followed by the cleanup event or warning when scratch space
\* existed, before the exception reached the caller.
C16_FailureEventThenRaise ==
    /\ [](\A w \in Workers :
            (workers[w].pc = "ret" /\ workers[w].exc # "none")
            => FailureReported)
    /\ [][\A w \in Workers :
            /\ ( /\ workers[w].pc \in StagePcs
                 /\ workers'[w].exc # "none"
                 /\ Moves(w) )
                 => workers'[w].pc = "p_except"
            /\ (workers[w].pc = "p_except" /\ Moves(w))
                 => /\ workers'[w].pc = "p_finally"
                    /\ workers'[w].exc = workers[w].exc
                    /\ workers[w].exc # "none"
            /\ (workers[w].pc = "p_finally" /\ Moves(w))
                 => /\ workers'[w].pc = "ret"
                    /\ workers'[w].exc = workers[w].exc
         ]_vars

\* a call has raised the ProcessingError of its separator after the failure
\* event and the cleanup event
C16_Witness ==
    /\ workers[1].pc = "ret"
    /\ workers[1].exc = "ProcessingError"
    /\ Len(events) >= 2
    /\ events[Len(events) - 1] = Progress("failure")
    /\ events[Len(events)] = Progress("cleanup")
    /\ At(Effect("p_separate", FALSE)) # {}
    /\ At(Effect("p_mix", FALSE)) = {}

RECURSIVE C17_Total(_)
\* the sum of the lengths of the chunks
C17_Total(chunks) ==
    IF chunks = <<>> THEN 0
    ELSE Head(chunks).length + C17_Total(Tail(chunks))

\* C17: for an audio longer than 0 the Split stage ends with n chunk files,
\* n >= 1 the least number with n * L >= d (the ceiling of d / L); file j
\* has index j - 1 and starts at (j - 1) * L; no chunk is empty and the
\* chunks make up the audio; 601 seconds with L = 300 gives chunks of 300,
\* 300 and 1 seconds.
C17_ChunkCount ==
    (calc.op = "split" /\ calc.pc = "done" /\ calc.halves > 0)
    => LET n == Len(calc.chunks)
           len == 2 * calc.chunk_len
       IN  /\ n >= 1
           /\ n * len >= calc.halves
           /\ (n - 1) * len < calc.halves
           /\ \A j \in 1..n :
                /\ calc.chunks[j].index = j - 1
                /\ calc.chunks[j].start = (j - 1) * calc.chunk_len
                /\ calc.chunks[j].length > 0
                /\ calc.chunks[j].length <= len
           /\ C17_Total(calc.chunks) = calc.halves
           /\ (calc.halves = 1202 /\ calc.chunk_len = 300)
                => [j \in 1..n |-> calc.chunks[j].length] = <<600, 600, 2>>

\* the 601 seconds have been split into three chunks
C17_Witness ==
    /\ calc.op = "split"
    /\ calc.pc = "done"
    /\ calc.halves = 1202
    /\ calc.chunk_len = CHUNK_DURATION_SECONDS
    /\ Len(calc.chunks) = 3

\* the stems for which the call has written an encoded output file
C18_Exported == {s \in StemSet : At(Output(s)) # {}}

\* the stems selected for export by the call of thread w
C18_Selected(w) ==
    {workers[w].args.stems_to_export[i] :
        i \in 1..Len(workers[w].args.stems_to_export)}

\* C18: in a Stems Only call an output file is only ever written for a
\* stem that is selected and has separated files, and when the call returns
\* normally exactly those stems have one; a selected stem without separated
\* files is passed over without raising.
C18_StemsExportedIff ==
    /\ [](\A w \in Workers :
            (workers[w].pc \in PipelinePcs
             /\ workers[w].args.export_mode = "Stems Only")
            => /\ C18_Exported \subseteq (C18_Selected(w) \cap disk)
               /\ (workers[w].pc = "ret" /\ workers[w].exc = "none")
                    => C18_Exported = C18_Selected(w) \cap disk)
    /\ [][\A w \in Workers :
            (/\ workers[w].pc = "p_stems"
             /\ workers[w].stem_i \in 1..Len(workers[w].args.stems_to_export)
             /\ workers[w].args.stems_to_export[workers[w].stem_i] \notin disk
             /\ ~cancel_flag
             /\ Moves(w))
            => /\ workers'[w].pc = "p_stems"
               /\ workers'[w].exc = "none"
               /\ workers'[w].stem_i = workers[w].stem_i + 1
               /\ events' = events
       ]_vars

\* vocals selected, drums not, separated files of both: the call has
\* returned with the vocals file only
C18_Witness ==
    /\ workers[1].pc = "ret"
    /\ workers[1].exc = "none"
    /\ workers[1].args.export_mode = "Stems Only"
    /\ workers[1].args.stems_to_export = <<"vocals">>
    /\ disk = {"vocals", "drums"}
    /\ C18_Exported = {"vocals"}

\* the argument is a str of '#' and six hexadecimal digits
C19_ValidColor(v) ==
    /\ v.is_str
    /\ Len(v.chars) = 7
    /\ v.chars[1] = "#"
    /\ \A i \in 2..7 : v.chars[i] \in HexDigits

\* C19, first half: for a valid colour '#RRGGBB' the token is "&H", the
\* bytes BB, GG, RR in upper case, "&": nine characters for every valid
\* colour.
C19_ValidReordered ==
    (calc.op = "color" /\ calc.pc = "done" /\ C19_ValidColor(calc.arg))
    => /\ Len(calc.result) = 9
       /\ SubSeq(calc.result, 1, 2) = <<"&", "H">>
       /\ calc.result[9] = "&"
       /\ \A i \in 1..2 :
            /\ calc.result[2 + i] = Upper(calc.arg.chars[5 + i])
            /\ calc.result[4 + i] = Upper(calc.arg.chars[3 + i])
            /\ calc.result[6 + i] = Upper(calc.arg.chars[1 + i])

\* C19: a valid colour gives the token with the bytes in the order BB, GG,
\* RR and of one length; every other argument (wrong length, characters
\* that are not hexadecimal, no '#', not a string) gives the opaque-white
\* fallback.
C19_ColorToken ==
    /\ C19_ValidReordered
    /\ (calc.op = "color" /\ calc.pc = "done"
        /\ ~C19_ValidColor(calc.arg))
       => calc.result = FallbackColor

\* C20: a step of a worker thread that changes the queue list (the pop of a
\* completed job, the clearing after a stop) is taken while is_processing
\* is TRUE.
C20_WorkerMutatesWhileActive ==
    [][\A w \in Workers :
         (Moves(w) /\ queue' # queue) => is_processing]_vars

\* the stages that have executed in the call, in their order
C22_Executed ==
    LET E == SelectSeq(events, LAMBDA e : e.kind = "effect")
    IN  [i \in 1..Len(E) |-> E[i].what]

\* C22: the stages that execute in a call of process_media do so in the
\* order Setup, Acquire, Transcribe, Split, Separate, Mix+Merge, Effects,
\* Export, none twice, and the cleanup comes last; Transcribe executes if
\* and only if lyrics were requested and the export mode is Video.
C22_StageOrder ==
    LET a == workers[1].args
        ran == {C22_Executed[i] : i \in 1..Len(C22_Executed)}
        wanted == a.generate_lyrics /\ a.export_mode = "Video"
    IN  (track = "pipeline") =>
        /\ \A i, j \in 1..Len(C22_Executed) :
             i < j => StageIndex(C22_Executed[i]) < StageIndex(C22_Executed[j])
        /\ \A k \in At(Progress("cleanup")) \cup At(Progress("warning")) :
             k = Len(events)
        /\ "p_transcribe" \in ran => wanted
        /\ ("p_split" \in ran /\ wanted) => "p_transcribe" \in ran
        /\ (workers[1].pc = "ret" /\ workers[1].exc = "none")
             => ran \cup {"p_transcribe", "p_effects"} = StagePcs \ {"p_stems"}

\* a Video call with lyrics has returned after all its stages and cleaned up
C22_Witness ==
    /\ workers[1].pc = "ret"
    /\ workers[1].exc = "none"
    /\ C22_Executed = <<"p_setup", "p_acquire", "p_transcribe", "p_split",
                        "p_separate", "p_mix", "p_export">>
    /\ events[Len(events)] = Progress("cleanup")

\* the filters the settings ask for, in the order normalization, pitch,
\* tempo
C23_Requested(a) ==
    (IF a.normalize_volume THEN <<"loudnorm">> ELSE <<>>)
    \o (IF a.pitch_shift # 0 THEN <<"rubberband">> ELSE <<>>)
    \o (IF a.speed_multiplier # 100 THEN <<"atempo">> ELSE <<>>)

\* C23: the Effects stage is passed over exactly when normalization is off,
\* the pitch shift is 0 and the speed is 1.0; when it has run, the filters
\* on the audio are the enabled effects, each once, in the order loudness
\* normalization, pitch shift, tempo change.
C23_EffectsChain ==
    (calc.op = "effects" /\ calc.pc = "done")
    => /\ calc.entered <=> C23_Requested(calc.args) # <<>>
       /\ calc.filters = C23_Requested(calc.args)

\* all three effects were requested and have been applied
C23_Witness ==
    /\ calc.op = "effects"
    /\ calc.pc = "done"
    /\ calc.args.normalize_volume
    /\ calc.filters = <<"loudnorm", "rubberband", "atempo">>

\* C24: when the separation tool has exited with a non-zero code the call
\* raises ProcessingError, and when the tool wrote to its error stream
\* during the run the details of the error are that text, not a
\* placeholder.
C24_DetailsAreDiagnostics ==
    (calc.op = "separate" /\ calc.pc = "raised")
    => /\ calc.exc = "ProcessingError"
       /\ calc.seen # <<>> => (calc.details = calc.seen
                               /\ calc.details # NoDetails)

RECURSIVE C25_Completed(_, _)
\* the number of times the percentage dropped from a value above 95 in the
\* lines pcts, counted up to n
C25_Completed(pcts, n) ==
    IF Len(pcts) < 2 THEN 0
    ELSE LET k == Len(pcts)
             before == C25_Completed(SubSeq(pcts, 1, k - 1), n)
         IN  IF pcts[k] < pcts[k - 1] /\ pcts[k - 1] > 95 /\ before < n
             THEN before + 1 ELSE before

\* the percentages of the progress lines read so far
C25_Pcts ==
    LET P == SelectSeq(calc.seen, LAMBDA l : l.kind = "pct")
    IN  [i \in 1..Len(P) |-> P[i].pct]

\* C25, the formula alone: the k-th value reported is
\* 30 + ((completedChunks + percentage / 100) / n) * 40.
C25_ProgressFormula ==
    (calc.op = "separate")
    => /\ Len(calc.reports) = Len(C25_Pcts)
       /\ \A k \in 1..Len(calc.reports) :
            LET cc == C25_Completed(SubSeq(C25_Pcts, 1, k), calc.num_chunks)
                r == calc.reports[k]
            IN  r.num * 100 * calc.num_chunks
                  = (3000 * calc.num_chunks + 40 * (100 * cc + C25_Pcts[k]))
                    * r.den

\* C25: every value reported during the separation follows the formula and
\* lies in the slice from 30 to 70 of the scale.
C25_ProgressInSlice ==
    /\ C25_ProgressFormula
    /\ (calc.op = "separate")
       => \A k \in 1..Len(calc.reports) :
            /\ 30 * calc.reports[k].den <= calc.reports[k].num
            /\ calc.reports[k].num <= 70 * calc.reports[k].den

\* C21: once the cancel flag is set, no further turn of the loop over the
\* chunks in Mix+Merge mixes a chunk (the flag is polled on every turn of a
\* per-item loop).
C21_LoopsPollFlag ==
    [][(calc.op = "mix" /\ calc.pc = "loop" /\ cancel_flag)
         => calc'.mixed = calc.mixed]_vars

\* the stems that qualify for chunk i: separated file present, volume
\* above 0
C26_Qualifying(i) ==
    {s \in StemSet : /\ <<i, s>> \in calc.files
                     /\ s \in DOMAIN calc.stem_volumes
                     /\ calc.stem_volumes[s] > 0}

\* C26: the mixed file of every chunk is made of exactly the stems that
\* qualify for the chunk, each once, and is silence if and only if none
\* qualifies.
C26_MixQualifying ==
    (calc.op = "mix")
    => \A j \in 1..Len(calc.mixed) :
         LET m == calc.mixed[j]
         IN  /\ m.index = j - 1
             /\ {m.stems[k] : k \in 1..Len(m.stems)} = C26_Qualifying(m.index)
             /\ Len(m.stems) = Cardinality(C26_Qualifying(m.index))
             /\ m.kind = "silence" <=> C26_Qualifying(m.index) = {}
             /\ m.kind \in {"silence", "mix"}

\* one chunk was mixed without a stem whose file exists but whose volume is
\* 0, and another chunk, without qualifying stems, was replaced by silence
C26_Witness ==
    /\ calc.op = "mix"
    /\ calc.pc = "done"
    /\ \E j \in 1..Len(calc.mixed) :
         /\ calc.mixed[j].kind = "mix"
         /\ <<j - 1, "vocals">> \in calc.files
         /\ calc.stem_volumes["vocals"] = 0
         /\ calc.mixed[j].stems = <<"drums">>
    /\ \E j \in 1..Len(calc.mixed) : calc.mixed[j].kind = "silence"

\* C27: a silent placeholder is as long as the chunk it stands for, and
\* the merged track is as long as the audio that was split.
C27_SilenceKeepsDuration ==
    (calc.op = "mix")
    => /\ \A j \in 1..Len(calc.mixed) :
            calc.mixed[j].kind = "silence"
            => calc.mixed[j].length
                 = ChunkFile(j - 1, calc.halves, calc.chunk_len).length
       /\ calc.pc = "done" => calc.merged = calc.halves

\* C28: the list of files handed to the merge names the mixed files of the
\* chunks 0..n-1, each once, in increasing order of the chunk index.
C28_MergeInChunkOrder ==
    (calc.op = "mix" /\ calc.pc \in {"write", "concat", "done"})
    => /\ calc.listing = [k \in 1..calc.num_chunks |-> k - 1]
       /\ calc.pc \in {"concat", "done"} => calc.concat = calc.listing

\* what the claim has for a segment: the window from max(0, start - 0.5 s)
\* to the end, and each word with end - start, all in hundredths
C29_Expected(segment) ==
    LET fields(cs) == <<cs \div 360000, (cs % 360000) \div 6000,
                        (cs % 6000) \div 100, cs % 100>>
    IN  [start |-> fields(Max(0, segment.start - 50)),
         end |-> fields(segment.end),
         parts |-> [j \in 1..Len(segment.words) |->
                       [k |-> segment.words[j].end - segment.words[j].start,
                        text |-> Strip(segment.words[j].word)]]]

\* the part of C29 that is about the shape of the document: one cue for
\* each segment read so far, in segment order, with the words of the
\* segment in their order; no duration is negative, a word of zero length
\* has duration 0, and without segments nothing follows the header
C29_Shape ==
    calc.op = "subtitles" =>
        /\ Len(calc.events) = calc.i
        /\ calc.pc = "done" => calc.i = Len(calc.segments)
        /\ calc.pc = "header" => calc.i = 0
        /\ \A n \in 1..calc.i :
             LET cue == calc.events[n]
                 words == calc.segments[n].words
             IN  /\ Len(cue.parts) = Len(words)
                 /\ \A j \in 1..Len(words) :
                      /\ cue.parts[j].text = Strip(words[j].word)
                      /\ cue.parts[j].k >= 0
                      /\ words[j].end = words[j].start
                             => cue.parts[j].k = 0

\* C29: the document has one cue per segment, in segment order; each cue
\* starts at max(0, segment start - 0.5 s) and ends at the segment end, and
\* carries the words of the segment in their order, each with a duration
\* of its (end - start) in hundredths of a second
C29_CuesExact ==
    calc.op = "subtitles" =>
        /\ Len(calc.events) = calc.i
        /\ \A n \in 1..calc.i :
             calc.events[n] = C29_Expected(calc.segments[n])


\* C30: whenever a thread of _process_queue reports the queue progress
\* before a job (the step from line 290 into process_media), the value
\* jobs_completed / total_jobs is at least 0 and less than 1, also when
\* jobs have been enqueued since the run began
C30_QueueProgressBelowOne ==
    [][\A w \in Workers :
          workers[w].pc = "take" /\ workers'[w].pc = "p_setup"
              => /\ workers[w].total_jobs > 0
                 /\ workers[w].jobs_completed >= 0
                 /\ workers[w].jobs_completed < workers[w].total_jobs]_vars

\* C31: the cancel flag is clear when the thread of a new run begins its
\* first job.  The step that starts a run leaves the flag clear; the flag
\* is set only by a stop request made while a run is marked active, a step
\* that moves no thread and changes nothing of the queue, so that a request
\* made while no run is active leaves the flag as it is; only the start of
\* a run clears the flag; and a thread passes the loop test into a job only
\* with the flag clear
C31_FlagClearForNewRun ==
    [][/\ ~is_processing /\ is_processing' => ~cancel_flag'
       /\ ~cancel_flag /\ cancel_flag'
              => /\ is_processing
                 /\ UNCHANGED <<queue, is_processing, current_job_id,
                                workers, nextId>>
       /\ cancel_flag /\ ~cancel_flag' => ~is_processing /\ is_processing'
       /\ \A w \in Workers :
              workers[w].pc = "loop" /\ workers'[w].pc = "take"
                  => ~cancel_flag]_vars

\* the thread of an earlier run has found the flag set by a stop request,
\* and the thread of the next run is in its first job with the flag clear
C31_Witness ==
    \E v, w \in Workers :
        /\ workers[v].pc = "fin_clear"
        /\ workers[w].pc = "p_setup"
        /\ workers[w].jobs_completed = 0
        /\ is_processing
        /\ ~cancel_flag

\* C32: whenever a thread of _process_queue reaches the pop of lines
\* 313-316 after a successful call, the queue is not empty, its head is the
\* job whose call has just succeeded, that job is the current job, and the
\* step removes that job and no other
C32_PopsTheJobItRan ==
    [][\A w \in Workers :
          workers[w].pc = "pop" /\ Moves(w)
              => /\ queue # <<>>
                 /\ workers[w].job_successful
                 /\ queue[1].id = workers[w].job.id
                 /\ current_job_id = workers[w].job.id
                 /\ queue' = Tail(queue)]_vars

\* C33: every run ends: whenever a run is marked active, a state follows
\* in which the processing flag is false and current_job_id is cleared,
\* whatever the outcome (all jobs done, a failure, a stop), and every thread
\* of _process_queue comes to its end; and a step taken while the queue is
\* empty, a start_queue_thread call among them, starts no thread and does
\* not set the processing flag
C33_RunEnds ==
    /\ is_processing ~> (~is_processing /\ current_job_id = None)
    /\ \A w \in Workers :
           (workers[w].pc # "idle") ~> (workers[w].pc = "idle")
    /\ [][queue = <<>>
              => /\ \A w \in Workers :
                        workers[w].pc = "idle" => workers'[w].pc = "idle"
                 /\ ~is_processing => ~is_processing']_vars

\* a thread whose job failed has marked the run inactive and cleared
\* current_job_id, with the failed job still in the queue
C33_Witness ==
    \E w \in Workers :
        /\ workers[w].pc = "fin_check"
        /\ workers[w].failed
        /\ ~is_processing
        /\ current_job_id = None
        /\ queue # <<>>

====
